---- MODULE Spec2Model ----
(***************************************************************************)
(* tbx-proxy: the resolution-and-caching pipeline (handleResolve with its  *)
(* Token Store, Fast Cache and Durable Store), the retrying upstream       *)
(* client (fetchWithRetry), the segment relay (handleSegment with its      *)
(* domain allow-list), the manifest rewriter (rewriteM3U8), the stream     *)
(* handler (handleStream) and the lookup handler (handleLookup), modelled  *)
(* from src/src/handlers.js, src/src/utils.js, src/src/m3u8.js and the D1  *)
(* helpers (src/unnamed/part_001).  Two further specifications interleave  *)
(* the statements of two storeUpstreamData calls (SpecSavers) and the      *)
(* Token Store steps of two resolutions (SpecTokens); SpecServe serves the *)
(* four routes one request after another.                                  *)
(*                                                                         *)
(* Strings whose characters the code inspects (URLs, host names, cookies)  *)
(* are sequences of one-character strings.  JavaScript's null/undefined is *)
(* the value Null.                                                         *)
(***************************************************************************)
EXTENDS Integers, Sequences, FiniteSets, TLC

Null == "null"

(***************************************************************************)
(* String helpers: String.prototype.indexOf / endsWith / slice.            *)
(***************************************************************************)
\* s.indexOf(pat, from) with 1-based positions; 0 stands for JavaScript's -1.
IndexOf(s, pat, from) ==
  LET hits == { i \in from..(Len(s) - Len(pat) + 1) :
                  SubSeq(s, i, i + Len(pat) - 1) = pat }
  IN  IF hits = {} THEN 0 ELSE CHOOSE i \in hits : \A j \in hits : i <= j

\* s.endsWith(suffix)
EndsWith(s, suffix) ==
  /\ Len(s) >= Len(suffix)
  /\ SubSeq(s, Len(s) - Len(suffix) + 1, Len(s)) = suffix

\* The ASCII lower-casing the URL parser applies to a host name.
LowerChar(c) ==
  CASE c = "A" -> "a" [] c = "B" -> "b" [] c = "D" -> "d" [] c = "M" -> "m"
    [] c = "O" -> "o" [] c = "P" -> "p" [] c = "T" -> "t" [] c = "X" -> "x"
    [] OTHER -> c

ToLower(s) == [i \in 1..Len(s) |-> LowerChar(s[i])]

(***************************************************************************)
(* new URL(urlString), for           the absolute http(s) URLs and the      *)
(* scheme-less strings a segment request can carry: the scheme ends at     *)
(* "://", the authority at the first "/", "?" or "#"; the userinfo (up to  *)
(* the last "@") and the port (from ":") are dropped and the host is       *)
(* lower-cased.  A string with no scheme or an empty host does not parse   *)
(* (the constructor throws): ok is FALSE.                                  *)
(***************************************************************************)
FirstOf(s, chars) ==
  LET hits == { i \in 1..Len(s) : s[i] \in chars }
  IN  IF hits = {} THEN Len(s) + 1 ELSE CHOOSE i \in hits : \A j \in hits : i <= j

LastOf(s, c) ==
  LET hits == { i \in 1..Len(s) : s[i] = c }
  IN  IF hits = {} THEN 0 ELSE CHOOSE i \in hits : \A j \in hits : i >= j

NewURL(urlString) ==
  LET sep == IndexOf(urlString, <<":", "/", "/">>, 1)
      rest      == SubSeq(urlString, sep + 3, Len(urlString))
      authority == SubSeq(rest, 1, FirstOf(rest, {"/", "?", "#"}) - 1)
      hostport  == SubSeq(authority, LastOf(authority, "@") + 1, Len(authority))
      host      == SubSeq(hostport, 1, FirstOf(hostport, {":"}) - 1)
  IN  IF sep <= 1 \/ host = <<>>
        THEN [ok |-> FALSE, hostname |-> <<>>]
        ELSE [ok |-> TRUE, hostname |-> ToLower(host)]

(***************************************************************************)
(* handlers.js: the segment relay's allow-list.                            *)
(***************************************************************************)
ALLOWED_SEGMENT_DOMAINS ==
  { <<"t","e","r","a","b","o","x",".","c","o","m">>,
    <<"t","e","r","a","b","o","x",".","a","p","p">>,
    <<"1","0","2","4","t","e","r","a",".","c","o","m">>,
    <<"1","0","2","4","t","e","r","a","b","o","x",".","c","o","m">>,
    <<"f","r","e","e","t","e","r","a","b","o","x",".","c","o","m">>,
    <<"t","e","r","a","b","o","x","c","d","n",".","c","o","m">>,
    <<"d","m",".","t","e","r","a","b","o","x",".","a","p","p">>,
    <<"d","m",".","1","0","2","4","t","e","r","a",".","c","o","m">>,
    <<"t","e","r","a","s","h","a","r","e","l","i","n","k",".","c","o","m">>,
    <<"t","e","r","a","f","i","l","e","s","h","a","r","e",".","c","o","m">>,
    <<"t","e","r","a","b","o","x","l","i","n","k",".","c","o","m">>,
    <<"t","e","r","a","b","o","x","s","h","a","r","e",".","c","o","m">> }

\* The allow-list test without the "." boundary: hostname.endsWith(domain).
isAllowedSegmentUrl_NoDot(urlString) ==
  LET url == NewURL(urlString)
  IN  IF ~url.ok THEN FALSE
      ELSE \E domain \in ALLOWED_SEGMENT_DOMAINS :
             \/ url.hostname = domain
             \/ EndsWith(url.hostname, domain)

\* isAllowedSegmentUrl: try { new URL(..); return DOMAINS.some(..) } catch { return false }
isAllowedSegmentUrl(urlString) ==
  LET url == NewURL(urlString)
  IN  IF ~url.ok THEN FALSE
      ELSE \E domain \in ALLOWED_SEGMENT_DOMAINS :
             \/ url.hostname = domain
             \/ EndsWith(url.hostname, <<".">> \o domain)

\* The `url` parameters of the segment requests considered.
U_evil == <<"h","t","t","p",":","/","/","e","v","i","l",".","e","x","a","m","p","l","e","/","s","e","g",".","t","s">>
U_cdn == <<"h","t","t","p","s",":","/","/","t","e","r","a","b","o","x","c","d","n",".","c","o","m","/","s","e","g",".","t","s">>
U_sub == <<"h","t","t","p","s",":","/","/","s","u","b",".","t","e","r","a","b","o","x",".","c","o","m","/","s","e","g",".","t","s">>
U_evilterabox == <<"h","t","t","p","s",":","/","/","e","v","i","l","t","e","r","a","b","o","x",".","c","o","m","/","s","e","g",".","t","s">>
U_upper == <<"h","t","t","p","s",":","/","/","D","M",".","T","e","r","a","B","o","x",".","a","p","p","/","a">>
U_userinfo == <<"h","t","t","p","s",":","/","/","t","e","r","a","b","o","x",".","c","o","m","@","e","v","i","l",".","e","x","a","m","p","l","e","/","a">>
U_port == <<"h","t","t","p","s",":","/","/","t","e","r","a","b","o","x",".","a","p","p",":","8","4","4","3","/","a">>
U_tail == <<"h","t","t","p","s",":","/","/","t","e","r","a","b","o","x",".","c","o","m",".","e","v","i","l",".","e","x","a","m","p","l","e","/","a">>
U_rel == <<"t","e","r","a","b","o","x",".","c","o","m","/","s","e","g",".","t","s">>
U_bare == <<"h","t","t","p","s",":","/","/","1","0","2","4","t","e","r","a",".","c","o","m">>
U_query == <<"h","t","t","p","s",":","/","/","e","v","i","l",".","e","x","a","m","p","l","e","/","?","u","=",".","t","e","r","a","b","o","x",".","c","o","m">>
U_deep == <<"h","t","t","p","s",":","/","/","a",".","d","m",".","1","0","2","4","t","e","r","a",".","c","o","m","/","a">>
U_app == <<"h","t","t","p","s",":","/","/","x","t","e","r","a","b","o","x",".","a","p","p","/","a">>
U_garbage == <<"n","o","t"," ","a"," ","u","r","l">>

SegmentUrls ==
  { U_evil, U_cdn, U_sub, U_evilterabox, U_upper, U_userinfo, U_port, U_tail, U_rel, U_bare, U_query, U_deep, U_app, U_garbage }

(***************************************************************************)
(* The state.                                                              *)
(***************************************************************************)
VARIABLES
  seg_pc,     \* handleSegment: "idle", "await_fetch" (suspended at fetch), "done"
  seg_req,    \* the segment request: [params, headers]
  seg_out,    \* the outbound fetches this request issued: <<[url, headers, res]>>
  seg_resp    \* the response (NoResponse until the handler returns)

segVars == <<seg_pc, seg_req, seg_out, seg_resp>>

VARIABLES
  fr_pc,      \* fetchWithRetry: "idle", "fetch", "backoff", "returned", "threw"
  fr_retries, \* its retry budget
  fr_base,    \* its base delay (ms)
  fr_attempt, \* the loop variable `attempt`
  fr_log,     \* the outcomes of the attempts made so far
  fr_delays,  \* the backoff delays slept so far (ms)
  fr_lastErr, \* the variable `lastErr`
  fr_result   \* the response returned or the error thrown

frVars == <<fr_pc, fr_retries, fr_base, fr_attempt, fr_log, fr_delays,
           fr_lastErr, fr_result>>

VARIABLES
  env,        \* the bindings: [kv |-> SHARE_KV is bound, d1 |-> sharedfile is bound]
  kv,         \* SHARE_KV: the keys present and their values
  db,         \* the D1 database: [shares, media_files, thumbnails]
  now,        \* the clock (s); it ticks at each resolve request
  rs,         \* handleResolve: its position and locals
  prev        \* per share id, the observer's note of its last resolution

rsVars == <<env, kv, db, now, rs, prev>>

VARIABLES
  m3,         \* rewriteM3U8: the call in progress, [pc, content, url, out]
  st,         \* handleStream: its position and locals
  lk          \* handleLookup: its position, request and response

VARIABLES
  sv,         \* two storeUpstreamData calls in progress: [pc, surl, upstream, k]
  tw          \* two resolutions at their token steps, and who cached each token

cVars == <<sv, tw>>

hVars == <<m3, st, lk, cVars>>

vars == <<segVars, frVars, rsVars, hVars>>

(***************************************************************************)
(* utils.js: errorJson / badRequest / buildHeaders.                        *)
(***************************************************************************)
errorJson(status, code, details) ==
  [kind |-> "error", status |-> status, code |-> code, details |-> details,
   required |-> {}]

badRequest(required) ==
  [kind |-> "error", status |-> 400, code |-> "bad_request", details |-> Null,
   required |-> required]

\* buildHeaders(request, extra): User-Agent, the extras, and the request's
\* Cookie when it has one.  Headers are modelled by the set of their names.
buildHeaders(reqHeaders, extra) ==
  {"User-Agent"} \cup extra \cup (reqHeaders \cap {"Cookie"})

(***************************************************************************)
(* handlers.js: handleSegment.                                             *)
(***************************************************************************)
ForwardHeaders == {"Range", "If-Range", "If-Modified-Since", "If-None-Match",
                   "Accept-Encoding"}

passthroughHeaders == {"Content-Range", "Accept-Ranges", "Content-Length",
                       "ETag", "Last-Modified"}

\* What a segment request can carry and what the upstream can answer.
\* Header sets: no header, any single one, or all of them.
FewOrAll(S) == { T \in SUBSET S : Cardinality(T) <= 1 \/ T = S }

SegRequestHeaders == FewOrAll(ForwardHeaders \cup {"Cookie"})
SegUpstreamHeaders == FewOrAll(passthroughHeaders \cup {"content-type", "Set-Cookie"})
SegUpstreamStatuses == {200, 206, 304, 403, 404, 500, 503}
\* The query parameters: a function from the names present to their values;
\* URLSearchParams.get gives null for a name that is absent.
SegParams == { [url |-> u] : u \in SegmentUrls \cup {<<>>} } \cup { <<>> }

Has(params, name) == name \in DOMAIN params

NoRequest == [kind |-> "none"]
NoResponse == [kind |-> "none"]

\* handleSegment without the allow-list test: the fetch is issued for any url.
HandleSegment_NoCheck(params, reqHeaders) ==
  /\ seg_pc = "idle"
  /\ UNCHANGED <<frVars, rsVars, hVars>>
  /\ seg_req' = [kind |-> "segment", params |-> params, headers |-> reqHeaders]
  /\ IF ~Has(params, "url") \/ params.url = <<>>
       THEN /\ seg_resp' = badRequest({"url"})
            /\ seg_out' = <<>>
            /\ seg_pc' = "done"
       ELSE /\ seg_resp' = NoResponse
            /\ seg_out' = << [url |-> params.url,
                              headers |-> buildHeaders(reqHeaders,
                                 {"Referer"} \cup (reqHeaders \cap ForwardHeaders)),
                              res |-> NoResponse] >>
            /\ seg_pc' = "await_fetch"

\* handleSegment from its entry to its first await: the parameter test, the
\* allow-list test, then the fetch is issued with the forwarded headers.
HandleSegment(params, reqHeaders) ==
  /\ seg_pc = "idle"
  /\ UNCHANGED <<frVars, rsVars, hVars>>
  /\ seg_req' = [kind |-> "segment", params |-> params, headers |-> reqHeaders]
  /\ IF ~Has(params, "url") \/ params.url = <<>>
       THEN /\ seg_resp' = badRequest({"url"})
            /\ seg_out' = <<>>
            /\ seg_pc' = "done"
       ELSE IF ~isAllowedSegmentUrl(params.url)
         THEN /\ seg_resp' = errorJson(403, "invalid_segment_url", Null)
              /\ seg_out' = <<>>
              /\ seg_pc' = "done"
         ELSE /\ seg_resp' = NoResponse
              /\ seg_out' = << [url |-> params.url,
                                headers |-> buildHeaders(reqHeaders,
                                   {"Referer"} \cup (reqHeaders \cap ForwardHeaders)),
                                res |-> NoResponse] >>
              /\ seg_pc' = "await_fetch"

\* The relay with a retry: a fetch answered 5xx is issued once more.
SegmentFetchReturns_Retried(status, upHeaders) ==
  /\ seg_pc = "await_fetch"
  /\ IF status >= 500 /\ Len(seg_out) = 1
       THEN /\ seg_out' = <<[seg_out[1] EXCEPT !.res = [status |-> status,
                                                       headers |-> upHeaders]],
                            seg_out[1]>>
            /\ UNCHANGED <<seg_pc, seg_resp>>
       ELSE /\ seg_out' = [seg_out EXCEPT ![Len(seg_out)].res =
                             [status |-> status, headers |-> upHeaders]]
            /\ seg_resp' = [kind |-> "relay", status |-> status,
                            headers |-> {"Content-Type", "Cache-Control"}
                                          \cup (upHeaders \cap passthroughHeaders),
                            contentType |-> IF "content-type" \in upHeaders
                                              THEN "upstream" ELSE "video/mp2t"]
            /\ seg_pc' = "done"
  /\ UNCHANGED seg_req
  /\ UNCHANGED <<frVars, rsVars, hVars>>

\* The fetch resolves: the upstream's status and body are relayed, with the
\* pass-through headers the upstream sent.  The answer is noted with the
\* fetch.
SegmentFetchReturns(status, upHeaders) ==
  /\ seg_pc = "await_fetch"
  /\ seg_out' = [seg_out EXCEPT ![Len(seg_out)].res =
                   [status |-> status, headers |-> upHeaders]]
  /\ seg_resp' = [kind |-> "relay", status |-> status,
                  headers |-> {"Content-Type", "Cache-Control"}
                                \cup (upHeaders \cap passthroughHeaders),
                  contentType |-> IF "content-type" \in upHeaders
                                    THEN "upstream" ELSE "video/mp2t"]
  /\ seg_pc' = "done"
  /\ UNCHANGED seg_req
  /\ UNCHANGED <<frVars, rsVars, hVars>>

\* The fetch rejects (network error): handleSegment has no try, the exception
\* reaches the router.
SegmentFetchThrows ==
  /\ seg_pc = "await_fetch"
  /\ seg_resp' = [kind |-> "thrown"]
  /\ seg_pc' = "done"
  /\ UNCHANGED <<seg_req, seg_out>>
  /\ UNCHANGED <<frVars, rsVars, hVars>>

\* The response has been sent; the worker takes the next request, which
\* shares no state with this one.
SegmentDone ==
  /\ seg_pc = "done"
  /\ seg_pc' = "idle"
  /\ seg_req' = NoRequest
  /\ seg_out' = <<>>
  /\ seg_resp' = NoResponse
  /\ UNCHANGED <<frVars, rsVars, hVars>>

SegNext ==
  \/ \E p \in SegParams, h \in SegRequestHeaders : HandleSegment(p, h)
  \/ \E s \in SegUpstreamStatuses, h \in SegUpstreamHeaders : SegmentFetchReturns(s, h)
  \/ SegmentFetchThrows
  \/ SegmentDone

(***************************************************************************)
(* handlers.js: isTransientStatus and fetchWithRetry.                      *)
(*                                                                         *)
(* One call of fetchWithRetry is the process fr_*: FetchAttempt is one     *)
(* `await fetch(..)` with the test that follows it, FetchBackoff the       *)
(* `await setTimeout(delay)` and the loop's next turn.  An outcome of a    *)
(* fetch is a response with its status or a network error.                 *)
(***************************************************************************)
Response(status) == [kind |-> "response", status |-> status]
NetworkError == [kind |-> "network_error"]
NoOutcome == [kind |-> "none"]
\* new Error(`Transient upstream status: ${res.status}`)
TransientStatusError(status) == [kind |-> "transient_status", status |-> status]

\* Response.ok
IsOk(status) == status >= 200 /\ status <= 299

\* isTransientStatus with the 5xx range opened one too late.
isTransientStatus_Gt500(status) ==
  status = 408 \/ status = 429 \/ (status > 500 /\ status <= 599)

isTransientStatus(status) ==
  status = 408 \/ status = 429 \/ (status >= 500 /\ status <= 599)


\* fetchWithRetry(url, options, retries, baseDelayMs) is entered: attempt = 0.
FetchWithRetryCall(retries, baseDelayMs) ==
  /\ fr_pc' = "fetch"
  /\ fr_retries' = retries
  /\ fr_base' = baseDelayMs
  /\ fr_attempt' = 0
  /\ fr_log' = <<>>
  /\ fr_delays' = <<>>
  /\ fr_lastErr' = NoOutcome
  /\ fr_result' = NoOutcome

\* One attempt that backs off even after the last attempt: the test
\* `attempt === retries` is missing from both branches.
FetchAttempt_NoFinalTest(outcome) ==
  /\ fr_pc = "fetch"
  /\ fr_log' = Append(fr_log, outcome)
  /\ IF outcome.kind = "response"
          /\ (IsOk(outcome.status) \/ ~isTransientStatus(outcome.status))
       THEN fr_pc' = "returned" /\ fr_result' = outcome /\ fr_lastErr' = fr_lastErr
       ELSE /\ fr_pc' = "backoff"
            /\ fr_result' = NoOutcome
            /\ fr_lastErr' = IF outcome.kind = "response"
                               THEN TransientStatusError(outcome.status)
                               ELSE outcome
  /\ UNCHANGED <<fr_retries, fr_base, fr_attempt, fr_delays>>

\* One turn of the loop up to the return, the throw or the backoff.
FetchAttempt(outcome) ==
  /\ fr_pc = "fetch"
  /\ fr_log' = Append(fr_log, outcome)
  /\ IF outcome.kind = "response"
       THEN IF \/ IsOk(outcome.status)
               \/ ~isTransientStatus(outcome.status)
               \/ fr_attempt = fr_retries
              THEN /\ fr_pc' = "returned"
                   /\ fr_result' = outcome
                   /\ fr_lastErr' = fr_lastErr
              ELSE /\ fr_pc' = "backoff"
                   /\ fr_result' = NoOutcome
                   /\ fr_lastErr' = TransientStatusError(outcome.status)
       ELSE /\ fr_lastErr' = outcome
            /\ IF fr_attempt = fr_retries
                 THEN fr_pc' = "threw" /\ fr_result' = outcome
                 ELSE fr_pc' = "backoff" /\ fr_result' = NoOutcome
  /\ UNCHANGED <<fr_retries, fr_base, fr_attempt, fr_delays>>

\* delay = baseDelayMs * 2^attempt; after it, attempt++ and the loop test;
\* past the loop the last error is thrown.
FetchBackoff ==
  /\ fr_pc = "backoff"
  /\ fr_delays' = Append(fr_delays, fr_base * 2^fr_attempt)
  /\ fr_attempt' = fr_attempt + 1
  /\ IF fr_attempt + 1 <= fr_retries
       THEN fr_pc' = "fetch" /\ fr_result' = NoOutcome
       ELSE fr_pc' = "threw" /\ fr_result' = fr_lastErr
  /\ UNCHANGED <<fr_retries, fr_base, fr_log, fr_lastErr>>

(***************************************************************************)
(* fetchWithRetry on its own: any budget up to MaxBudget against any       *)
(* sequence of upstream outcomes.                                          *)
(***************************************************************************)
MaxBudget == 2
baseDelayMs == 200

RetryStatuses == {200, 204, 304, 401, 403, 404, 408, 429, 499, 500, 503, 599}
RetryOutcomes == { Response(s) : s \in RetryStatuses } \cup { NetworkError }

RetryCall(retries) ==
  /\ fr_pc = "idle"
  /\ FetchWithRetryCall(retries, baseDelayMs)
  /\ UNCHANGED <<segVars, rsVars, hVars>>

RetryAttempt(outcome) == FetchAttempt(outcome) /\ UNCHANGED <<segVars, rsVars, hVars>>

RetryBackoff == FetchBackoff /\ UNCHANGED <<segVars, rsVars, hVars>>

\* The caller has its response or its exception.
RetryDone ==
  /\ fr_pc \in {"returned", "threw"}
  /\ fr_pc' = "idle"
  /\ fr_retries' = 0
  /\ fr_base' = 0
  /\ fr_attempt' = 0
  /\ fr_log' = <<>>
  /\ fr_delays' = <<>>
  /\ fr_lastErr' = NoOutcome
  /\ fr_result' = NoOutcome
  /\ UNCHANGED <<segVars, rsVars, hVars>>

RetryNext ==
  \/ \E r \in 0..MaxBudget : RetryCall(r)
  \/ \E o \in RetryOutcomes : RetryAttempt(o)
  \/ RetryBackoff
  \/ RetryDone

(***************************************************************************)
(* JavaScript values.  An object is a function from its keys to their      *)
(* values; a key whose value is undefined is absent (JSON drops it).       *)
(***************************************************************************)
\* x.key || null, for a string-valued key
OrNull(obj, key) == IF Has(obj, key) /\ obj[key] # "" THEN obj[key] ELSE Null

\* !x.key, for a string-valued key
Falsy(obj, key) == ~Has(obj, key) \/ obj[key] \in {"", Null}

\* { ...(cond && { key: value }) }
Field(cond, key, value) == IF cond THEN key :> value ELSE <<>>

(***************************************************************************)
(* handlers.js: hashString, the djb2 hash of the Cookie header on 32 bits. *)
(* A cookie is the sequence of its char codes; the 32-bit value is kept as *)
(* two 16-bit halves <<hi, lo>>.                                           *)
(***************************************************************************)
Half == 65536

\* hash = ((hash << 5) + hash + c) & 0xffffffff, that is 33 * hash + c mod 2^32
HashStep(h, c) ==
  LET lo == h[2] * 33 + c
      hi == h[1] * 33 + (lo \div Half)
  IN  <<hi % Half, lo % Half>>

RECURSIVE HashLoop(_, _, _)
HashLoop(h, input, i) ==
  IF i > Len(input) THEN h ELSE HashLoop(HashStep(h, input[i]), input, i + 1)

\* Math.abs of the signed 32-bit value: the two's complement when bit 31 is set.
Abs32(h) ==
  IF h[1] < Half \div 2 THEN h
  ELSE IF h[2] = 0 THEN <<Half - h[1], 0>>
  ELSE <<Half - 1 - h[1], Half - h[2]>>

\* hashString(input): toString(36) is one-to-one, the halves stand for it.
hashString(input) == <<"h">> \o Abs32(HashLoop(<<0, 5381>>, input, 1))

(***************************************************************************)
(* The KV namespace SHARE_KV (Fast Cache and Token Store): a function from *)
(* the keys present to their values.                                       *)
(***************************************************************************)
\* `share:${surl}`
ShareKey(surl) == <<"share", surl>>

\* `token:${surl}:${cookie ? hashString(cookie) : 'anon'}`
TokenKey(surl, cookie) ==
  <<"token", surl, IF cookie # <<>> THEN hashString(cookie) ELSE <<"anon">>>>

KvHas(store, key) == key \in DOMAIN store
KvPut(store, key, value) == (key :> value) @@ store
KvDelete(store, key) == [k \in DOMAIN store \ {key} |-> store[k]]

\* jsToken = null, or a token the code treats alike: the empty string
NoToken == <<>>

(***************************************************************************)
(* utils.js: findBetween and extractJsToken, on the page's characters.     *)
(***************************************************************************)
TokenStart == <<"f", "n", "%", "2", "8", "%", "2", "2">>
TokenEnd == <<"%", "2", "2", "%", "2", "9">>

\* findBetween(str, start, end); null is NoToken
findBetween(str, start, end) ==
  LET i == IndexOf(str, start, 1)
      j == IndexOf(str, end, i + Len(start))
  IN  IF i = 0 THEN NoToken
      ELSE IF j = 0 THEN NoToken
      ELSE SubSeq(str, i + Len(start), j - 1)

extractJsToken(html) == findBetween(html, TokenStart, TokenEnd)

(***************************************************************************)
(* db.js (src/unnamed/part_001): the D1 tables are sequences of rows, in   *)
(* row-id order.                                                           *)
(***************************************************************************)
EmptyDb == [shares |-> <<>>, media_files |-> <<>>, thumbnails |-> <<>>]

\* A plain INSERT into a table without the key: the row is added whatever the
\* table holds.
Upsert_AlwaysInsert(rows, key, row, updated) == Append(rows, row)

\* INSERT .. ON CONFLICT(key) DO UPDATE SET <the columns `updated`>
Upsert(rows, key, row, updated) ==
  IF \E i \in 1..Len(rows) : rows[i][key] = row[key]
    THEN [i \in 1..Len(rows) |->
            IF rows[i][key] = row[key]
              THEN [c \in DOMAIN rows[i] |->
                      IF c \in updated THEN row[c] ELSE rows[i][c]]
              ELSE rows[i]]
    ELSE Append(rows, row)

\* saveShare's statement preceded by a DELETE of the share's files: the share
\* is stored afresh.
SaveShareStmt_ClearsFiles(d, shareId, data, time) ==
  [d EXCEPT !.shares =
     Upsert(@, "share_id",
            [share_id |-> shareId, uk |-> OrNull(data, "uk"),
             title |-> OrNull(data, "title"), updated_at |-> time],
            {"uk", "title", "updated_at"}),
            !.media_files = SelectSeq(@, LAMBDA f : f.share_id # shareId)]

\* saveShare's statement
SaveShareStmt(d, shareId, data, time) ==
  [d EXCEPT !.shares =
     Upsert(@, "share_id",
            [share_id |-> shareId, uk |-> OrNull(data, "uk"),
             title |-> OrNull(data, "title"), updated_at |-> time],
            {"uk", "title", "updated_at"})]

\* saveMediaFile's INSERT: on a conflict isdir, play_forbid and the
\* local/server creation times keep their stored values.
SaveMediaFileStmt(d, shareId, file) ==
  [d EXCEPT !.media_files =
     Upsert(@, "fs_id",
            [fs_id |-> file.fs_id, share_id |-> shareId,
             server_filename |-> OrNull(file, "server_filename"),
             server_ctime |-> OrNull(file, "server_ctime"),
             size |-> IF Has(file, "size") THEN file.size ELSE 0,
             dlink |-> OrNull(file, "dlink")],
            {"share_id", "server_filename", "size", "dlink"})]

\* saveThumbnails: DELETE FROM thumbnails WHERE fs_id = ?
DeleteThumbnailsStmt(d, fsId) ==
  [d EXCEPT !.thumbnails = SelectSeq(@, LAMBDA t : t.fs_id # fsId)]

thumbnailTypes == <<"url1", "url2", "url3", "icon">>

\* saveThumbnails: the batch of INSERTs, one per type the object carries
ThumbnailBatch(fsId, thumbs) ==
  LET present == SelectSeq(thumbnailTypes, LAMBDA type : Has(thumbs, type) /\ thumbs[type] # "")
  IN  [i \in 1..Len(present) |->
         [fs_id |-> fsId, url |-> thumbs[present[i]], thumbnail_type |-> present[i]]]

InsertThumbnailsStmt(d, fsId, thumbs) ==
  [d EXCEPT !.thumbnails = @ \o ThumbnailBatch(fsId, thumbs)]

\* The statements saveMediaFile runs for one file, in order.
MediaFileStatements(file) ==
  <<[op |-> "saveMediaFile", file |-> file]>>
  \o (IF Has(file, "thumbs")
        THEN <<[op |-> "deleteThumbnails", file |-> file]>>
             \o (IF ThumbnailBatch(file.fs_id, file.thumbs) # <<>>
                   THEN <<[op |-> "insertThumbnails", file |-> file]>>
                   ELSE <<>>)
        ELSE <<>>)

RECURSIVE ListStatements(_, _)
ListStatements(list, i) ==
  IF i > Len(list) THEN <<>>
  ELSE MediaFileStatements(list[i]) \o ListStatements(list, i + 1)

\* The statements storeUpstreamData runs, in order.
StoreStatements(upstream) ==
  <<[op |-> "saveShare"]>>
  \o (IF Has(upstream, "list") THEN ListStatements(upstream.list, 1) ELSE <<>>)

Execute(d, stmt, shareId, upstream, time) ==
  CASE stmt.op = "saveShare" -> SaveShareStmt(d, shareId, upstream, time)
    [] stmt.op = "saveMediaFile" -> SaveMediaFileStmt(d, shareId, stmt.file)
    [] stmt.op = "deleteThumbnails" -> DeleteThumbnailsStmt(d, stmt.file.fs_id)
    [] stmt.op = "insertThumbnails" ->
         InsertThumbnailsStmt(d, stmt.file.fs_id, stmt.file.thumbs)

RECURSIVE ExecuteFirst(_, _, _, _, _, _)
ExecuteFirst(d, stmts, n, shareId, upstream, time) ==
  IF n = 0 THEN d
  ELSE Execute(ExecuteFirst(d, stmts, n - 1, shareId, upstream, time),
               stmts[n], shareId, upstream, time)

\* storeUpstreamData(db, shareId, upstream): every statement runs inside one
\* try; statement number failAt throws (0: none does) and ends the function,
\* which then returns false.  The result is the database left behind.
storeUpstreamData(d, shareId, upstream, time, failAt) ==
  LET stmts == StoreStatements(upstream)
      n     == IF failAt = 0 THEN Len(stmts) ELSE failAt - 1
  IN  ExecuteFirst(d, stmts, n, shareId, upstream, time)

\* The thumbs object getShareFromDb assembles: a later row of a type
\* overwrites an earlier one.
ThumbsObject(d, fsId) ==
  LET rows == SelectSeq(d.thumbnails, LAMBDA t : t.fs_id = fsId)
      types == { rows[i].thumbnail_type : i \in 1..Len(rows) }
  IN  [type \in types |->
         rows[CHOOSE i \in 1..Len(rows) :
                /\ rows[i].thumbnail_type = type
                /\ \A j \in 1..Len(rows) :
                     rows[j].thumbnail_type = type => j <= i].url]

ShareFound(d, shareId) == \E i \in 1..Len(d.shares) : d.shares[i].share_id = shareId

\* getShareFromDb(db, shareId) when the share row exists: { ...share, list }
getShareFromDb(d, shareId) ==
  LET share == d.shares[CHOOSE i \in 1..Len(d.shares) : d.shares[i].share_id = shareId]
      files == SelectSeq(d.media_files, LAMBDA f : f.share_id = shareId)
  IN  ("list" :> [i \in 1..Len(files) |->
                    ("thumbs" :> ThumbsObject(d, files[i].fs_id)) @@ files[i]])
      @@ share

(***************************************************************************)
(* What the upstream can send.                                             *)
(***************************************************************************)
File1 == [fs_id |-> "f1", server_filename |-> "a.mp4", size |-> 10, server_mtime |-> 5,
          server_ctime |-> "c1", dlink |-> "dlink1",
          thumbs |-> [url1 |-> "f1-small", url3 |-> "f1-large"]]
File1NoLink == [fs_id |-> "f1", server_filename |-> "a.mp4", size |-> 10, server_mtime |-> 7]
File2 == [fs_id |-> "f2", server_filename |-> "b.mp4", size |-> 20, server_mtime |-> 6,
          dlink |-> "dlink2", thumbs |-> [url2 |-> "f2-medium"]]

ShareOf(list) == [errno |-> 0, uk |-> "uk1", shareid |-> "sid1", title |-> "t", list |-> list]

\* The bodies of an ok answer of the metadata API: not JSON, JSON without a
\* list, with an empty list, or with files.
NonJson == [json |-> FALSE]
Json(value) == [json |-> TRUE, value |-> value]

ApiBodies ==
  { NonJson, Json([errno |-> 2]), Json(ShareOf(<<>>)),
    Json(ShareOf(<<File1, File2>>)), Json(ShareOf(<<File1NoLink>>)) }

\* The share pages: with a token, with an empty token, with the start
\* delimiter only, without the pattern.
PageWith(token) == <<"<">> \o TokenStart \o token \o TokenEnd \o <<">">>

Pages ==
  { PageWith(<<"A">>), PageWith(<<"B">>), PageWith(<<>>),
    <<"<">> \o TokenStart \o <<"A">>, <<"<", ">">> }

\* The outcomes of one upstream fetch of the pipeline.
PipeStatuses == {200, 401, 403, 500}
PipeOutcomes == { Response(s) : s \in PipeStatuses } \cup { NetworkError }

\* An awaited storage operation resolves or rejects.
IoOutcomes == {"ok", "throw"}

\* The resolve requests: surl absent, empty or given; refresh and raw absent
\* or "1", and refresh with a value that is not "1"; sent with a Cookie header.
Surls == {"s1"}

ResolveParams ==
  { [surl |-> s] @@ Field(f, "refresh", "1") @@ Field(w, "raw", "1") :
      s \in Surls, f \in BOOLEAN, w \in BOOLEAN }
  \cup { [surl |-> s, refresh |-> "true"] : s \in Surls }
  \cup { <<>>, [surl |-> ""] }

Cookies == { <<97>> }

(***************************************************************************)
(* handlers.js: handleResolve.  rs holds the locals of the resolution in   *)
(* progress; each action is the code between two awaits.                   *)
(***************************************************************************)
retries == 2
MaxReqs == 3
MaxFaults == 1

NoBody == [json |-> FALSE]
NoRecord == [fid |-> Null]

RsIdle ==
  [pc |-> "idle", req |-> NoRequest, jsToken |-> NoToken, apiRes |-> NoOutcome,
   upstream |-> NoBody, record |-> NoRecord, ops |-> {}, failed |-> {},
   faults |-> 0, metrics |-> <<>>, resp |-> NoResponse]

Surl(r) == r.req.params.surl
Refresh(r) == Has(r.req.params, "refresh") /\ r.req.params.refresh = "1"
Raw(r) == Has(r.req.params, "raw") /\ r.req.params.raw = "1"

Respond(r, resp) == [r EXCEPT !.pc = "done", !.resp = resp]
Did(r, op) == [r EXCEPT !.ops = @ \cup {op}]

\* An awaited storage operation resolves or rejects.  It rejects always when
\* its binding is absent (a TypeError), and otherwise may reject while fewer
\* than MaxFaults rejections have happened; rs.faults counts those across
\* resolutions.  rs.ops notes the operations begun, rs.failed those rejected.
MayBe(r, outcome) == outcome = "ok" \/ r.faults < MaxFaults

Op(r, op, outcome, bound) ==
  [Did(r, op) EXCEPT
     !.failed = IF outcome = "ok" /\ bound THEN @ ELSE @ \cup {op},
     !.faults = IF outcome = "ok" \/ ~bound THEN @ ELSE @ + 1]

Succeeded(r, op) == op \in r.ops \ r.failed

Track(r, events) == [r EXCEPT !.metrics = @ \o events]

NoteFlag(noLink) == Field(noLink, "note", "dlink requires valid TeraBox cookies to download")

\* The response without the note.
jsonResponse_NoNote(source, noLink, key, payload) ==
  [kind |-> "json", status |-> 200, body |-> ("source" :> source) @@ (key :> payload)]

\* Response.json({ source, ...(note), [key]: payload })
jsonResponse(source, noLink, key, payload) ==
  [kind |-> "json", status |-> 200,
   body |-> ("source" :> source) @@ NoteFlag(noLink) @@ (key :> payload)]

\* d1Data.list?.some(f => f.dlink) || false
hasDlink(data) ==
  Has(data, "list") /\ \E i \in 1..Len(data.list) : ~Falsy(data.list[i], "dlink")

\* file.thumbs?.url3 || file.thumbs?.url2 || file.thumbs?.url1 || null
BestThumb(file) ==
  IF ~Has(file, "thumbs") THEN Null
  ELSE IF ~Falsy(file.thumbs, "url3") THEN file.thumbs.url3
  ELSE IF ~Falsy(file.thumbs, "url2") THEN file.thumbs.url2
  ELSE IF ~Falsy(file.thumbs, "url1") THEN file.thumbs.url1
  ELSE Null

\* The canonical record as JSON.stringify writes it: a key whose value is
\* undefined is dropped.
CanonicalRecord(surl, upstream, time) ==
  LET file == upstream.list[1]
  IN  Field(Has(file, "server_filename"), "name", file.server_filename)
      @@ Field(Has(file, "dlink"), "dlink", file.dlink)
      @@ [size |-> file.size, time |-> file.server_mtime,
          original_url |-> <<"https://terabox.app/s/", surl>>,
          thumb |-> BestThumb(file), fid |-> file.fs_id,
          stored_at |-> time, last_verified |-> time]
      @@ Field(Has(upstream, "uk"), "uk", upstream.uk)
      @@ (IF ~Falsy(upstream, "shareid") THEN "shareid" :> upstream.shareid
          ELSE IF Has(upstream, "share_id") THEN "shareid" :> upstream.share_id
          ELSE <<>>)

\* The observer's notes of the live resolutions of a share id.  `canon` is
\* about the latest one in canonical mode: the data it answered, whether its
\* Fast Cache write succeeded, whether the cached record has expired since.
\* `last` is about the latest one in either mode: whether it was raw, how
\* many files the upstream listed, whether its store ran to its end.
NoNote == [seen |-> FALSE]
NeverResolved == [canon |-> NoNote, last |-> NoNote]

IsLive(r) == r.resp.kind = "json" /\ r.resp.body.source = "live"

Noted(p, r) ==
  LET last == [seen |-> TRUE, raw |-> Raw(r),
               listLen |-> Len(r.upstream.value.list),
               stored |-> Succeeded(r, "d1_store")]
  IN  IF Raw(r) THEN [p EXCEPT !.last = last]
      ELSE [canon |-> [seen |-> TRUE, data |-> r.resp.body.data,
                       cached |-> Succeeded(r, "kv_put"), expired |-> FALSE],
            last |-> last]
FrReset ==
  /\ fr_pc' = "idle"
  /\ fr_retries' = 0
  /\ fr_base' = 0
  /\ fr_attempt' = 0
  /\ fr_log' = <<>>
  /\ fr_delays' = <<>>
  /\ fr_lastErr' = NoOutcome
  /\ fr_result' = NoOutcome

\* lines 87-94: the request is read; a missing surl is answered at once.
ResolveStart(params, cookie) ==
  /\ rs.pc = "idle"
  /\ now < MaxReqs
  /\ now' = now + 1
  /\ LET r == [RsIdle EXCEPT !.req = [kind |-> "resolve", params |-> params,
                                      cookie |-> cookie],
                              !.faults = rs.faults]
     IN  rs' = IF ~Has(params, "surl") \/ params.surl = ""
                 THEN Respond(r, badRequest({}))
                 ELSE [r EXCEPT !.pc = "check_kv"]
  /\ UNCHANGED <<env, kv, db, prev, segVars, hVars, frVars>>

\* lines 96-113 without the test of the flags: the Fast Cache answers every
\* resolution.
ResolveKvCheck_IgnoreFlags(outcome) ==
  /\ rs.pc = "check_kv"
  /\ MayBe(rs, outcome)
  /\ LET key == ShareKey(Surl(rs))
         r   == Op(rs, "kv_get", outcome, env.kv)
     IN  rs' = IF outcome = "throw" \/ ~env.kv
                 THEN [Track(r, <<"kv_read_failed">>) EXCEPT !.pc = "check_d1"]
               ELSE IF KvHas(kv, key)
                 THEN Respond(Track(r, <<"kv_read", "cache_hit">>),
                              jsonResponse("kv", Falsy(kv[key], "dlink"), "data", kv[key]))
               ELSE [Track(r, <<"kv_read", "cache_miss">>) EXCEPT !.pc = "check_d1"]
  /\ UNCHANGED <<env, kv, db, now, prev, segVars, hVars, frVars>>

\* lines 96-113 without the return on a hit: the hit is counted and the
\* resolution goes on.
ResolveKvCheck_HitContinues(outcome) ==
  /\ rs.pc = "check_kv"
  /\ MayBe(rs, outcome)
  /\ LET key == ShareKey(Surl(rs))
         r   == Op(rs, "kv_get", outcome, env.kv)
     IN  rs' = IF Refresh(rs) \/ Raw(rs)
                 THEN [rs EXCEPT !.pc = "check_d1"]
               ELSE IF outcome = "throw" \/ ~env.kv
                 THEN [Track(r, <<"kv_read_failed">>) EXCEPT !.pc = "check_d1"]
               ELSE IF KvHas(kv, key)
                 THEN [Track(r, <<"kv_read", "cache_hit">>) EXCEPT !.pc = "check_d1"]
               ELSE [Track(r, <<"kv_read", "cache_miss">>) EXCEPT !.pc = "check_d1"]
  /\ UNCHANGED <<env, kv, db, now, prev, segVars, hVars, frVars>>

\* lines 96-113 with the record stamped again on a hit.
ResolveKvCheck_Reverified(outcome) ==
  /\ rs.pc = "check_kv"
  /\ MayBe(rs, outcome)
  /\ LET key == ShareKey(Surl(rs))
         r   == Op(rs, "kv_get", outcome, env.kv)
     IN  rs' = IF Refresh(rs) \/ Raw(rs)
                 THEN [rs EXCEPT !.pc = "check_d1"]
               ELSE IF outcome = "throw" \/ ~env.kv
                 THEN [Track(r, <<"kv_read_failed">>) EXCEPT !.pc = "check_d1"]
               ELSE IF KvHas(kv, key)
                 THEN Respond(Track(r, <<"kv_read", "cache_hit">>),
                              jsonResponse("kv", Falsy(kv[key], "dlink"), "data",
                                           [kv[key] EXCEPT !.last_verified = now]))
               ELSE [Track(r, <<"kv_read", "cache_miss">>) EXCEPT !.pc = "check_d1"]
  /\ UNCHANGED <<env, kv, db, now, prev, segVars, hVars, frVars>>

\* lines 96-113: with neither flag, await SHARE_KV.get(`share:${surl}`).
ResolveKvCheck(outcome) ==
  /\ rs.pc = "check_kv"
  /\ MayBe(rs, outcome)
  /\ LET key == ShareKey(Surl(rs))
         r   == Op(rs, "kv_get", outcome, env.kv)
     IN  rs' = IF Refresh(rs) \/ Raw(rs)
                 THEN [rs EXCEPT !.pc = "check_d1"]
               ELSE IF outcome = "throw" \/ ~env.kv
                 THEN [Track(r, <<"kv_read_failed">>) EXCEPT !.pc = "check_d1"]
               ELSE IF KvHas(kv, key)
                 THEN Respond(Track(r, <<"kv_read", "cache_hit">>),
                              jsonResponse("kv", Falsy(kv[key], "dlink"), "data", kv[key]))
               ELSE [Track(r, <<"kv_read", "cache_miss">>) EXCEPT !.pc = "check_d1"]
  /\ UNCHANGED <<env, kv, db, now, prev, segVars, hVars, frVars>>

\* lines 115-132 with the test `!refresh` dropped.
ResolveD1Check_IgnoreRefresh(outcome) ==
  /\ rs.pc = "check_d1"
  /\ MayBe(rs, outcome)
  /\ LET r == Op(rs, "d1_get", outcome, TRUE)
     IN  rs' = IF ~(Raw(rs) /\ env.d1)
                 THEN [rs EXCEPT !.pc = "live"]
               ELSE IF outcome = "throw"
                 THEN [r EXCEPT !.pc = "live"]
               ELSE IF ShareFound(db, Surl(rs))
                 THEN LET d1Data == getShareFromDb(db, Surl(rs))
                      IN  Respond(Track(r, <<"cache_hit">>),
                                  jsonResponse("d1", ~hasDlink(d1Data), "data", d1Data))
               ELSE [Track(r, <<"cache_miss">>) EXCEPT !.pc = "live"]
  /\ UNCHANGED <<env, kv, db, now, prev, segVars, hVars, frVars>>

\* lines 115-132 without the catch: a rejected read is answered as an
\* internal error.
ResolveD1Check_ReadSurfaced(outcome) ==
  /\ rs.pc = "check_d1"
  /\ MayBe(rs, outcome)
  /\ LET r == Op(rs, "d1_get", outcome, TRUE)
     IN  rs' = IF ~(Raw(rs) /\ ~Refresh(rs) /\ env.d1)
                 THEN [rs EXCEPT !.pc = "live"]
               ELSE IF outcome = "throw"
                 THEN Respond(r, errorJson(500, "internal_error", NoOutcome))
               ELSE IF ShareFound(db, Surl(rs))
                 THEN LET d1Data == getShareFromDb(db, Surl(rs))
                      IN  Respond(Track(r, <<"cache_hit">>),
                                  jsonResponse("d1", ~hasDlink(d1Data), "data", d1Data))
               ELSE [Track(r, <<"cache_miss">>) EXCEPT !.pc = "live"]
  /\ UNCHANGED <<env, kv, db, now, prev, segVars, hVars, frVars>>

\* lines 115-132: with raw and not refresh (and D1 bound), await getShareFromDb.
ResolveD1Check(outcome) ==
  /\ rs.pc = "check_d1"
  /\ MayBe(rs, outcome)
  /\ LET r == Op(rs, "d1_get", outcome, TRUE)
     IN  rs' = IF ~(Raw(rs) /\ ~Refresh(rs) /\ env.d1)
                 THEN [rs EXCEPT !.pc = "live"]
               ELSE IF outcome = "throw"
                 THEN [r EXCEPT !.pc = "live"]
               ELSE IF ShareFound(db, Surl(rs))
                 THEN LET d1Data == getShareFromDb(db, Surl(rs))
                      IN  Respond(Track(r, <<"cache_hit">>),
                                  jsonResponse("d1", ~hasDlink(d1Data), "data", d1Data))
               ELSE [Track(r, <<"cache_miss">>) EXCEPT !.pc = "live"]
  /\ UNCHANGED <<env, kv, db, now, prev, segVars, hVars, frVars>>

\* fetchApiWithToken(jsToken): fetchWithRetry(apiUrl, .., 2, 200) is entered.
CallApi(r, jsToken, pc) ==
  /\ rs' = [Did(r, IF pc = "await_api_cached" THEN "call_api_cached" ELSE "call_api_scraped")
              EXCEPT !.jsToken = jsToken, !.pc = pc]
  /\ FetchWithRetryCall(retries, baseDelayMs)

\* lines 178-187: fetchWithRetry(pageUrl, .., 2, 200) is entered.
CallPage(r) ==
  /\ rs' = [Did(r, "call_page") EXCEPT !.jsToken = NoToken, !.pc = "await_page"]
  /\ FetchWithRetryCall(retries, baseDelayMs)

\* lines 134-187 with the Token Store read skipped under refresh: the page is
\* fetched at once.
ResolveTokenGet_SkipOnRefresh(outcome) ==
  /\ rs.pc = "live"
  /\ MayBe(rs, outcome)
  /\ LET tokenKey == TokenKey(Surl(rs), rs.req.cookie)
         jsToken  == IF env.kv /\ ~Refresh(rs) /\ outcome = "ok" /\ KvHas(kv, tokenKey)
                       THEN kv[tokenKey] ELSE NoToken
         r        == IF env.kv /\ ~Refresh(rs)
                       THEN Op(rs, "tok_get", outcome, TRUE) ELSE rs
     IN  IF jsToken # NoToken
           THEN CallApi(r, jsToken, "await_api_cached")
           ELSE CallPage(r)
  /\ UNCHANGED <<env, kv, db, now, prev, segVars, hVars>>

\* lines 134-162 and 178-187: the Token Store is read (when KV is bound); with
\* a token the API is called, without one the page is fetched.
ResolveTokenGet(outcome) ==
  /\ rs.pc = "live"
  /\ MayBe(rs, outcome)
  /\ LET tokenKey == TokenKey(Surl(rs), rs.req.cookie)
         jsToken  == IF env.kv /\ outcome = "ok" /\ KvHas(kv, tokenKey)
                       THEN kv[tokenKey] ELSE NoToken
         r        == IF env.kv THEN Op(rs, "tok_get", outcome, TRUE) ELSE rs
     IN  IF jsToken # NoToken
           THEN CallApi(r, jsToken, "await_api_cached")
           ELSE CallPage(r)
  /\ UNCHANGED <<env, kv, db, now, prev, segVars, hVars>>

\* One attempt, one backoff of the fetchWithRetry call in progress.
ResolveFetchAttempt(outcome) ==
  /\ rs.pc \in {"await_api_cached", "await_page", "await_api_scraped"}
  /\ FetchAttempt(outcome)
  /\ UNCHANGED <<rs, env, kv, db, now, prev, segVars, hVars>>

ResolveFetchBackoff ==
  /\ rs.pc \in {"await_api_cached", "await_page", "await_api_scraped"}
  /\ FetchBackoff
  /\ UNCHANGED <<rs, env, kv, db, now, prev, segVars, hVars>>

UpstreamError(r, details) ==
  Respond(Track(r, <<"upstream_error">>), errorJson(502, "upstream_error", details))

\* lines 159-176 without the test of 401 and 403: the rejection of the cached
\* token is surfaced like any other status.
ResolveApiCachedDone_NoRescrape ==
  /\ rs.pc = "await_api_cached"
  /\ fr_pc \in {"returned", "threw"}
  /\ rs' = IF fr_pc = "threw"
             THEN UpstreamError(rs, fr_result)
           ELSE [rs EXCEPT !.apiRes = fr_result, !.pc = "after_api"]
  /\ FrReset
  /\ UNCHANGED <<env, kv, db, now, prev, segVars, hVars>>

\* lines 159-176 with the Token Store read again after a rejection, the token
\* left in place.
ResolveApiCachedDone_Reread ==
  /\ rs.pc = "await_api_cached"
  /\ fr_pc \in {"returned", "threw"}
  /\ rs' = IF fr_pc = "threw"
             THEN UpstreamError(rs, fr_result)
           ELSE IF fr_result.status \in {401, 403}
             THEN [rs EXCEPT !.pc = "live"]
           ELSE [rs EXCEPT !.apiRes = fr_result, !.pc = "after_api"]
  /\ FrReset
  /\ UNCHANGED <<env, kv, db, now, prev, segVars, hVars>>

\* lines 159-176: the API call made with the cached token has ended.
ResolveApiCachedDone ==
  /\ rs.pc = "await_api_cached"
  /\ fr_pc \in {"returned", "threw"}
  /\ rs' = IF fr_pc = "threw"
             THEN UpstreamError(rs, fr_result)
           ELSE IF fr_result.status \in {401, 403}
             THEN [rs EXCEPT !.pc = "tok_delete"]
           ELSE [rs EXCEPT !.apiRes = fr_result, !.pc = "after_api"]
  /\ FrReset
  /\ UNCHANGED <<env, kv, db, now, prev, segVars, hVars>>

\* lines 167-187: await SHARE_KV.delete(tokenKey), failures ignored; then the
\* page is fetched.
ResolveTokenDelete(outcome) ==
  /\ rs.pc = "tok_delete"
  /\ MayBe(rs, outcome)
  /\ kv' = IF outcome = "ok" /\ env.kv
             THEN KvDelete(kv, TokenKey(Surl(rs), rs.req.cookie)) ELSE kv
  /\ CallPage(Op(rs, "tok_delete", outcome, env.kv))
  /\ UNCHANGED <<env, db, now, prev, segVars, hVars>>

\* lines 188-198 without the test `!pageRes.ok`: the body of whatever response
\* the page fetch returned is scraped.
ResolvePageDone_NoOkTest ==
  /\ rs.pc = "await_page"
  /\ fr_pc \in {"returned", "threw"}
  /\ rs' = IF fr_pc = "threw"
             THEN UpstreamError(rs, fr_result)
           ELSE [rs EXCEPT !.pc = "page_text"]
  /\ FrReset
  /\ UNCHANGED <<env, kv, db, now, prev, segVars, hVars>>

\* lines 188-198: the page fetch has ended.
ResolvePageDone ==
  /\ rs.pc = "await_page"
  /\ fr_pc \in {"returned", "threw"}
  /\ rs' = IF fr_pc = "threw"
             THEN UpstreamError(rs, fr_result)
           ELSE IF ~IsOk(fr_result.status)
             THEN UpstreamError(rs, fr_result)
           ELSE [rs EXCEPT !.pc = "page_text"]
  /\ FrReset
  /\ UNCHANGED <<env, kv, db, now, prev, segVars, hVars>>

\* lines 200-216 without the test `!jsToken`: whatever was scraped is used.
ResolvePageText_NoTokenTest(html) ==
  /\ rs.pc = "page_text"
  /\ LET jsToken == extractJsToken(html)
         r       == Did(rs, "scrape")
     IN  IF env.kv
           THEN /\ rs' = [r EXCEPT !.jsToken = jsToken, !.pc = "tok_put"]
                /\ UNCHANGED frVars
         ELSE CallApi(r, jsToken, "await_api_scraped")
  /\ UNCHANGED <<env, kv, db, now, prev, segVars, hVars>>

\* lines 200-216: await pageRes.text(); the token is scraped; with KV bound it
\* is cached next, otherwise the API is called.
ResolvePageText(html) ==
  /\ rs.pc = "page_text"
  /\ LET jsToken == extractJsToken(html)
         r       == Did(rs, "scrape")
     IN  IF jsToken = NoToken
           THEN /\ rs' = Respond(r, errorJson(403, "token_extract_failed", NoOutcome))
                /\ UNCHANGED frVars
         ELSE IF env.kv
           THEN /\ rs' = [r EXCEPT !.jsToken = jsToken, !.pc = "tok_put"]
                /\ UNCHANGED frVars
         ELSE CallApi(r, jsToken, "await_api_scraped")
  /\ UNCHANGED <<env, kv, db, now, prev, segVars, hVars>>

\* lines 207-216: await SHARE_KV.put(tokenKey, jsToken, ttl 10 min), failures
\* ignored; then the API is called with the scraped token.
ResolveTokenPut(outcome) ==
  /\ rs.pc = "tok_put"
  /\ MayBe(rs, outcome)
  /\ kv' = IF outcome = "ok" /\ env.kv
             THEN KvPut(kv, TokenKey(Surl(rs), rs.req.cookie), rs.jsToken) ELSE kv
  /\ CallApi(Op(rs, "tok_put", outcome, env.kv), rs.jsToken, "await_api_scraped")
  /\ UNCHANGED <<env, db, now, prev, segVars, hVars>>

\* lines 215-221: the API call made with the scraped token has ended.
ResolveApiScrapedDone ==
  /\ rs.pc = "await_api_scraped"
  /\ fr_pc \in {"returned", "threw"}
  /\ rs' = IF fr_pc = "threw"
             THEN UpstreamError(rs, fr_result)
           ELSE [rs EXCEPT !.apiRes = fr_result, !.pc = "after_api"]
  /\ FrReset
  /\ UNCHANGED <<env, kv, db, now, prev, segVars, hVars>>

\* lines 253-277 without the return of raw mode: the record is built and
\* written whatever the mode.
AfterStore_RawCached(r, upstream) ==
  [r EXCEPT !.record = CanonicalRecord(Surl(r), upstream, now), !.pc = "kv_put"]

\* lines 253-277: after the store, raw mode answers with the payload under
\* the key `upstream`; otherwise the record is built and written next.
AfterStore(r, upstream) ==
  IF Raw(r)
    THEN Respond(r, jsonResponse("live", ~hasDlink(upstream), "upstream", upstream))
    ELSE [r EXCEPT !.record = CanonicalRecord(Surl(r), upstream, now), !.pc = "kv_put"]

\* lines 223-251 with the API called again when the body is not JSON or
\* lists no file.
ResolveApiBody_Retried(body) ==
  /\ rs.pc = "after_api"
  /\ IF ~IsOk(rs.apiRes.status)
       THEN rs' = UpstreamError(rs, rs.apiRes) /\ UNCHANGED frVars
     ELSE IF ~body.json \/ ~Has(body.value, "list") \/ Len(body.value.list) = 0
       THEN CallApi(rs, rs.jsToken, "await_api_scraped")
     ELSE /\ rs' = IF env.d1
                     THEN [rs EXCEPT !.upstream = body, !.pc = "d1_store"]
                     ELSE AfterStore([rs EXCEPT !.upstream = body], body.value)
          /\ UNCHANGED frVars
  /\ UNCHANGED <<env, kv, db, now, prev, segVars, hVars>>

\* lines 223-251 without the test `!apiRes.ok`: the body of a response that is
\* not ok is parsed and stored like any other.
ResolveApiBody_NoOkTest(body) ==
  /\ rs.pc = "after_api"
  /\ rs' = IF ~body.json
             THEN Respond(Track(rs, <<"upstream_error">>),
                          errorJson(502, "upstream_non_json", rs.apiRes))
           ELSE IF ~Has(body.value, "list") \/ Len(body.value.list) = 0
             THEN Respond(Track(rs, <<"upstream_error">>),
                          errorJson(502, "upstream_empty", NoOutcome))
           ELSE IF env.d1
             THEN [rs EXCEPT !.upstream = body, !.pc = "d1_store"]
           ELSE AfterStore([rs EXCEPT !.upstream = body], body.value)
  /\ UNCHANGED <<env, kv, db, now, prev, segVars, hVars, frVars>>

\* lines 223-251: the API response is tested and its body parsed and tested.
ResolveApiBody(body) ==
  /\ rs.pc = "after_api"
  /\ rs' = IF ~IsOk(rs.apiRes.status)
             THEN UpstreamError(rs, rs.apiRes)
           ELSE IF ~body.json
             THEN Respond(Track(rs, <<"upstream_error">>),
                          errorJson(502, "upstream_non_json", rs.apiRes))
           ELSE IF ~Has(body.value, "list") \/ Len(body.value.list) = 0
             THEN Respond(Track(rs, <<"upstream_error">>),
                          errorJson(502, "upstream_empty", NoOutcome))
           ELSE IF env.d1
             THEN [rs EXCEPT !.upstream = body, !.pc = "d1_store"]
           ELSE AfterStore([rs EXCEPT !.upstream = body], body.value)
  /\ UNCHANGED <<env, kv, db, now, prev, segVars, hVars, frVars>>

\* lines 244-277: await storeUpstreamData(..), which swallows its failure.
\* Where the store may stop: nowhere (0) or at one of its statements.
StoreFailures ==
  IF rs.pc = "d1_store" THEN 0..Len(StoreStatements(rs.upstream.value)) ELSE {0}

\* lines 244-251 without the catch: a failure of the store is answered as an
\* internal error.
ResolveStore_Surfaced(failAt) ==
  /\ rs.pc = "d1_store"
  /\ failAt = 0 \/ rs.faults < MaxFaults
  /\ db' = storeUpstreamData(db, Surl(rs), rs.upstream.value, now, failAt)
  /\ LET r == Op(rs, "d1_store", IF failAt = 0 THEN "ok" ELSE "throw", TRUE)
     IN  rs' = IF failAt = 0 THEN AfterStore(r, rs.upstream.value)
               ELSE Respond(r, errorJson(500, "internal_error", NoOutcome))
  /\ UNCHANGED <<env, kv, now, prev, segVars, hVars, frVars>>

ResolveStore(failAt) ==
  /\ rs.pc = "d1_store"
  /\ failAt = 0 \/ rs.faults < MaxFaults
  /\ db' = storeUpstreamData(db, Surl(rs), rs.upstream.value, now, failAt)
  /\ rs' = AfterStore(Op(rs, "d1_store", IF failAt = 0 THEN "ok" ELSE "throw", TRUE),
                      rs.upstream.value)
  /\ UNCHANGED <<env, kv, now, prev, segVars, hVars, frVars>>

\* lines 279-293: await SHARE_KV.put(kvKey, JSON.stringify(record), ttl 7 days),
\* failures counted; the live answer follows.
ResolveKvPut(outcome) ==
  /\ rs.pc = "kv_put"
  /\ MayBe(rs, outcome)
  /\ LET ok == outcome = "ok" /\ env.kv
     IN  /\ kv' = IF ok THEN KvPut(kv, ShareKey(Surl(rs)), rs.record) ELSE kv
         /\ rs' = Respond(Track(Op(rs, "kv_put", outcome, env.kv),
                                IF ok THEN <<"kv_write">> ELSE <<"kv_write_failed">>),
                          jsonResponse("live", Falsy(rs.record, "dlink"), "data", rs.record))
  /\ UNCHANGED <<env, db, now, prev, segVars, hVars, frVars>>

\* The response is sent; the observer notes a live resolution under its
\* share id.
ResolveDone ==
  /\ rs.pc = "done"
  /\ rs' = [RsIdle EXCEPT !.faults = rs.faults]
  /\ prev' = IF IsLive(rs) THEN [prev EXCEPT ![Surl(rs)] = Noted(@, rs)] ELSE prev
  /\ UNCHANGED <<env, kv, db, now, segVars, hVars, frVars>>

\* A KV entry reaches its TTL (10 minutes for a token, 7 days for a record).
KvExpire(key) ==
  /\ rs.pc = "idle"
  /\ KvHas(kv, key)
  /\ kv' = KvDelete(kv, key)
  /\ prev' = [s \in Surls |->
                IF key = ShareKey(s) /\ prev[s].canon.seen
                  THEN [prev[s] EXCEPT !.canon.expired = TRUE] ELSE prev[s]]
  /\ UNCHANGED <<env, db, now, rs, segVars, hVars, frVars>>

Next ==
  \/ \E p \in ResolveParams, c \in Cookies : ResolveStart(p, c)
  \/ \E o \in IoOutcomes : ResolveKvCheck(o)
  \/ \E o \in IoOutcomes : ResolveD1Check(o)
  \/ \E o \in IoOutcomes : ResolveTokenGet(o)
  \/ \E o \in PipeOutcomes : ResolveFetchAttempt(o)
  \/ ResolveFetchBackoff
  \/ ResolveApiCachedDone
  \/ \E o \in IoOutcomes : ResolveTokenDelete(o)
  \/ ResolvePageDone
  \/ \E h \in Pages : ResolvePageText(h)
  \/ \E o \in IoOutcomes : ResolveTokenPut(o)
  \/ ResolveApiScrapedDone
  \/ \E b \in ApiBodies : ResolveApiBody(b)
  \/ \E k \in StoreFailures : ResolveStore(k)
  \/ \E o \in IoOutcomes : ResolveKvPut(o)
  \/ ResolveDone
  \/ \E k \in DOMAIN kv : KvExpire(k)


(***************************************************************************)
(* m3u8.js: rewriteM3U8(content, request).  A playlist is the sequence of  *)
(* its characters; "\n" separates its lines.                               *)
(***************************************************************************)
StartsWith(s, prefix) == Len(s) >= Len(prefix) /\ SubSeq(s, 1, Len(prefix)) = prefix

\* content.split('\n')
RECURSIVE Split(_, _)
Split(s, sep) ==
  LET at == IndexOf(s, sep, 1)
  IN  IF at = 0 THEN <<s>>
      ELSE <<SubSeq(s, 1, at - 1)>> \o Split(SubSeq(s, at + Len(sep), Len(s)), sep)

\* lines.join('\n')
RECURSIVE Join(_, _)
Join(parts, sep) ==
  IF Len(parts) = 0 THEN <<>>
  ELSE IF Len(parts) = 1 THEN parts[1]
  ELSE parts[1] \o sep \o Join(Tail(parts), sep)

\* line.trim(): the white space of both ends is removed.
WhiteSpace == {" ", "\t", "\r", "\n"}

Trim(s) ==
  LET ink == { i \in 1..Len(s) : s[i] \notin WhiteSpace }
  IN  IF ink = {} THEN <<>>
      ELSE SubSeq(s, CHOOSE i \in ink : \A j \in ink : i <= j,
                     CHOOSE i \in ink : \A j \in ink : i >= j)

\* The application/x-www-form-urlencoded serializer URLSearchParams uses:
\* letters, digits and * - . _ stay, a space becomes "+", any other character
\* becomes its percent-encoded byte.
PercentCode(c) ==
  CASE c = ":" -> <<"%", "3", "A">> [] c = "/" -> <<"%", "2", "F">>
    [] c = "?" -> <<"%", "3", "F">> [] c = "=" -> <<"%", "3", "D">>
    [] c = "&" -> <<"%", "2", "6">> [] c = "+" -> <<"%", "2", "B">>
    [] c = "%" -> <<"%", "2", "5">> [] c = "#" -> <<"%", "2", "3">>
    [] c = "\r" -> <<"%", "0", "D">> [] c = "\n" -> <<"%", "0", "A">>
    [] c = " " -> <<"+">>
    [] OTHER -> <<c>>

RECURSIVE FormEncode(_)
FormEncode(s) ==
  IF s = <<>> THEN <<>> ELSE PercentCode(Head(s)) \o FormEncode(Tail(s))

\* The parser of the same format: "+" is a space, "%XX" the byte XX.
PercentChar(code) ==
  CASE code = <<"3", "A">> -> ":" [] code = <<"2", "F">> -> "/"
    [] code = <<"3", "F">> -> "?" [] code = <<"3", "D">> -> "="
    [] code = <<"2", "6">> -> "&" [] code = <<"2", "B">> -> "+"
    [] code = <<"2", "5">> -> "%" [] code = <<"2", "3">> -> "#"
    [] code = <<"0", "D">> -> "\r" [] code = <<"0", "A">> -> "\n"
    [] OTHER -> "?"

RECURSIVE FormDecode(_)
FormDecode(s) ==
  IF s = <<>> THEN <<>>
  ELSE IF Head(s) = "+" THEN <<" ">> \o FormDecode(Tail(s))
  ELSE IF Head(s) = "%" /\ Len(s) >= 3
    THEN <<PercentChar(SubSeq(s, 2, 3))>> \o FormDecode(SubSeq(s, 4, Len(s)))
  ELSE <<Head(s)>> \o FormDecode(Tail(s))

\* base = new URL(request.url); base.search = ''; base.toString(): the URL
\* without its query; a fragment stays.
WithoutSearch(url) ==
  LET q == FirstOf(url, {"?", "#"})
      h == FirstOf(url, {"#"})
  IN  SubSeq(url, 1, q - 1) \o SubSeq(url, h, Len(url))

ModeSegment == <<"?", "m", "o", "d", "e", "=", "s", "e", "g", "m", "e", "n", "t">>
UrlParam == <<"&", "u", "r", "l", "=">>

\* u = new URL(base); u.searchParams.set('mode', 'segment');
\* u.searchParams.set('url', line); u.toString()
SegmentUrl(base, line) == base \o ModeSegment \o UrlParam \o FormEncode(line)

Http == <<"h", "t", "t", "p">>

\* The callback of map: a comment, a blank line and a line that does not
\* start with "http" are returned as they are.
rewriteLine(line, base) ==
  IF StartsWith(line, <<"#">>) \/ Trim(line) = <<>> \/ ~StartsWith(line, Http)
    THEN line
    ELSE SegmentUrl(base, line)

rewriteM3U8(content, url) ==
  LET base  == WithoutSearch(url)
      lines == Split(content, <<"\n">>)
  IN  Join([i \in 1..Len(lines) |-> rewriteLine(lines[i], base)], <<"\n">>)

\* The lines of the playlists considered: tags, a comment that holds a URL,
\* an empty line, a line of white space, absolute URLs (one with a query and
\* characters the encoding changes, one with its scheme in capitals) and
\* relative ones (one of a directory named httpdir).
L_tag == <<"#","E","X","T","M","3","U">>
L_inf == <<"#","E","X","T","-","X","-","S","T","R","E","A","M","-","I","N","F",":","B","A","N","D","W","I","D","T","H","=","1">>
L_comment == <<"#","h","t","t","p",":","/","/","c","d","n",".","e","x","a","m","p","l","e","/","x",".","t","s">>
L_blank == <<>>
L_space == <<" ","\r">>
L_seg1 == <<"h","t","t","p",":","/","/","c","d","n",".","e","x","a","m","p","l","e","/","s","e","g","1",".","t","s">>
L_query == <<"h","t","t","p","s",":","/","/","c",".","d","/","s","?","a","=","b","&","c","=","d","+","e"," ","f","%","2","3">>
L_rel == <<"s","e","g","2",".","t","s">>
L_httpdir == <<"h","t","t","p","d","i","r","/","s","e","g","3",".","t","s">>
L_upper == <<"H","T","T","P","S",":","/","/","C",".","D","/","s","e","g","4",".","t","s">>

PlaylistLines ==
  { L_tag, L_inf, L_comment, L_blank, L_space, L_seg1, L_query, L_rel, L_httpdir, L_upper }

\* The URLs of the requests considered.
R_stream == <<"h","t","t","p","s",":","/","/","p","r","o","x","y",".","e","x","a","m","p","l","e","/","a","p","i","?","m","o","d","e","=","s","t","r","e","a","m","&","s","u","r","l","=","s","1">>
R_plain == <<"h","t","t","p",":","/","/","l","o","c","a","l","h","o","s","t",":","8","7","8","7","/">>

RequestUrls == { R_stream, R_plain }

MaxLines == 2

\* The playlists of one to MaxLines lines.
Playlists ==
  UNION { { Join(ls, <<"\n">>) : ls \in [1..n -> PlaylistLines] } : n \in 1..MaxLines }

M3Idle == [pc |-> "idle"]

\* rewriteM3U8 is called and returns.
M3Call(content, url) ==
  /\ m3.pc = "idle"
  /\ m3' = [pc |-> "returned", content |-> content, url |-> url,
            out |-> rewriteM3U8(content, url)]
  /\ UNCHANGED <<segVars, frVars, rsVars, st, lk, cVars>>

M3Done ==
  /\ m3.pc = "returned"
  /\ m3' = M3Idle
  /\ UNCHANGED <<segVars, frVars, rsVars, st, lk, cVars>>

M3Next ==
  \/ \E c \in Playlists, u \in RequestUrls : M3Call(c, u)
  \/ M3Done

(***************************************************************************)
(* handlers.js: handleStream.  st holds the locals of the stream request   *)
(* in progress; the resolution it calls on a cache miss runs in rs.        *)
(***************************************************************************)
StIdle ==
  [pc |-> "idle", req |-> NoRequest, record |-> NoRecord, streamUrl |-> NoOutcome,
   out |-> <<>>, metrics |-> <<>>, resp |-> NoResponse]

\* The stream requests: surl absent or given, with and without a quality
\* type, raw and refresh.
StreamParams ==
  { [surl |-> s] @@ Field(t, "type", "M3U8_AUTO_720") @@ Field(w, "raw", "1")
      : s \in Surls, t \in BOOLEAN, w \in BOOLEAN }
  \cup { [surl |-> s, raw |-> "1", refresh |-> "1"] : s \in Surls }
  \cup { <<>> }

\* The metadata API's ok bodies for the stream requests: a complete share, one
\* whose file has no download link, one without owner id, one without share id.
StreamApiBodies ==
  { Json(ShareOf(<<File1, File2>>)), Json(ShareOf(<<File1NoLink>>)),
    Json([errno |-> 0, shareid |-> "sid1", list |-> <<File1>>]),
    Json([errno |-> 0, uk |-> "uk1", list |-> <<File1>>]),
    NonJson }

\* The answers of the manifest endpoint: a status and a playlist.
ManifestStatuses == {200, 403}
ManifestPlaylists == { Join(<<L_tag, L_inf, L_seg1>>, <<"\n">>), L_rel }

MaxStreams == 2

\* new URLSearchParams(params) with 'raw' deleted.
WithoutRaw(params) == [k \in DOMAIN params \ {"raw"} |-> params[k]]

\* lines 346-360: the URL of the manifest request.
StreamUrl(record, type) ==
  [base |-> "https://dm.1024tera.com/share/streaming",
   params |-> [uk |-> record.uk, shareid |-> record.shareid, fid |-> record.fid,
               type |-> type, clienttype |-> "0", app_id |-> "250528", web |-> "1",
               channel |-> "dubox", timestamp |-> "1234567890", sign |-> "abcd"]]

\* lines 342-367 without the test of the download link.
StreamWithRecord_NoDlinkTest(s, record) ==
  IF Falsy(record, "uk") \/ Falsy(record, "shareid") \/ Falsy(record, "fid")
    THEN [s EXCEPT !.record = record, !.pc = "done",
                   !.resp = errorJson(500, "incomplete_metadata", NoOutcome)]
    ELSE LET type == IF Falsy(s.req.params, "type") THEN "M3U8_AUTO_360"
                     ELSE s.req.params.type
             url  == StreamUrl(record, type)
         IN  [s EXCEPT !.record = record, !.streamUrl = url, !.pc = "await_manifest",
                       !.out = Append(@, [url |-> url,
                                          headers |-> buildHeaders({"Cookie"},
                                                        {"Accept", "Referer"})])]

\* lines 342-367: with the record in hand, its four fields are tested; the
\* manifest fetch is issued when all are there.
StreamWithRecord(s, record) ==
  IF Falsy(record, "uk") \/ Falsy(record, "shareid") \/ Falsy(record, "fid")
       \/ Falsy(record, "dlink")
    THEN [s EXCEPT !.record = record, !.pc = "done",
                   !.resp = errorJson(500, "incomplete_metadata", NoOutcome)]
    ELSE LET type == IF Falsy(s.req.params, "type") THEN "M3U8_AUTO_360"
                     ELSE s.req.params.type
             url  == StreamUrl(record, type)
         IN  [s EXCEPT !.record = record, !.streamUrl = url, !.pc = "await_manifest",
                       !.out = Append(@, [url |-> url,
                                          headers |-> buildHeaders({"Cookie"},
                                                        {"Accept", "Referer"})])]

\* lines 299-306: the entry of handleStream.
StreamStart(params, cookie) ==
  /\ st.pc = "idle"
  /\ rs.pc = "idle"
  /\ now < MaxStreams
  /\ now' = now + 1
  /\ LET s == [StIdle EXCEPT !.req = [kind |-> "stream", params |-> params,
                                      cookie |-> cookie, url |-> R_stream]]
     IN  st' = IF Falsy(params, "surl")
                 THEN [s EXCEPT !.pc = "done", !.resp = badRequest({"surl"})]
                 ELSE [s EXCEPT !.pc = "check_kv"]
  /\ UNCHANGED <<env, kv, db, rs, prev, segVars, frVars, m3, lk, cVars>>

\* lines 320-325 with the caller's parameters passed as they are.
StreamKvCheck_KeepsRaw(outcome) ==
  /\ st.pc = "check_kv"
  /\ MayBe(rs, outcome)
  /\ LET key    == ShareKey(st.req.params.surl)
         failed == outcome = "throw" \/ ~env.kv
         events == IF failed THEN <<"kv_read_failed">>
                   ELSE IF KvHas(kv, key) THEN <<"kv_read", "cache_hit">>
                   ELSE <<"kv_read", "cache_miss">>
         s      == [st EXCEPT !.metrics = @ \o events]
         faults == IF outcome = "throw" /\ env.kv THEN rs.faults + 1 ELSE rs.faults
     IN  IF ~failed /\ KvHas(kv, key)
           THEN /\ st' = StreamWithRecord(s, kv[key])
                /\ rs' = [rs EXCEPT !.faults = faults]
           ELSE /\ st' = [s EXCEPT !.pc = "await_resolve"]
                /\ rs' = [RsIdle EXCEPT
                            !.req = [kind |-> "resolve", params |-> st.req.params,
                                     cookie |-> st.req.cookie],
                            !.faults = faults, !.pc = "check_kv"]
  /\ UNCHANGED <<env, kv, db, now, prev, segVars, frVars, m3, lk, cVars>>

\* lines 307-325: the Fast Cache is read; with a record the handler goes on
\* to the manifest, without one it calls handleResolve with the parameters
\* less `raw`.
StreamKvCheck(outcome) ==
  /\ st.pc = "check_kv"
  /\ MayBe(rs, outcome)
  /\ LET key    == ShareKey(st.req.params.surl)
         failed == outcome = "throw" \/ ~env.kv
         events == IF failed THEN <<"kv_read_failed">>
                   ELSE IF KvHas(kv, key) THEN <<"kv_read", "cache_hit">>
                   ELSE <<"kv_read", "cache_miss">>
         s      == [st EXCEPT !.metrics = @ \o events]
         faults == IF outcome = "throw" /\ env.kv THEN rs.faults + 1 ELSE rs.faults
     IN  IF ~failed /\ KvHas(kv, key)
           THEN /\ st' = StreamWithRecord(s, kv[key])
                /\ rs' = [rs EXCEPT !.faults = faults]
           ELSE /\ st' = [s EXCEPT !.pc = "await_resolve"]
                /\ rs' = [RsIdle EXCEPT
                            !.req = [kind |-> "resolve",
                                     params |-> WithoutRaw(st.req.params),
                                     cookie |-> st.req.cookie],
                            !.faults = faults, !.pc = "check_kv"]
  /\ UNCHANGED <<env, kv, db, now, prev, segVars, frVars, m3, lk, cVars>>

\* lines 325-340 with the record read again from the Fast Cache after the
\* resolution, instead of taken from its response.
StreamResolveReturns_Reread ==
  /\ st.pc = "await_resolve"
  /\ rs.pc = "done"
  /\ st' = IF rs.resp.kind = "error"
             THEN [st EXCEPT !.pc = "done", !.resp = rs.resp]
           ELSE IF ~(env.kv /\ KvHas(kv, ShareKey(st.req.params.surl)))
             THEN [st EXCEPT !.pc = "done",
                             !.resp = errorJson(404, "not_found", NoOutcome)]
           ELSE StreamWithRecord(st, kv[ShareKey(st.req.params.surl)])
  /\ rs' = [RsIdle EXCEPT !.faults = rs.faults]
  /\ prev' = IF IsLive(rs) THEN [prev EXCEPT ![Surl(rs)] = Noted(@, rs)] ELSE prev
  /\ UNCHANGED <<env, kv, db, now, segVars, frVars, m3, lk, cVars>>

\* lines 325-340: handleResolve has returned.  A response that is not ok is
\* returned as it is; otherwise the record is the `data` of its body.
StreamResolveReturns ==
  /\ st.pc = "await_resolve"
  /\ rs.pc = "done"
  /\ st' = IF rs.resp.kind = "error"
             THEN [st EXCEPT !.pc = "done", !.resp = rs.resp]
           ELSE IF ~Has(rs.resp.body, "data")
             THEN [st EXCEPT !.pc = "done",
                             !.resp = errorJson(404, "not_found", NoOutcome)]
           ELSE StreamWithRecord(st, rs.resp.body.data)
  /\ rs' = [RsIdle EXCEPT !.faults = rs.faults]
  /\ prev' = IF IsLive(rs) THEN [prev EXCEPT ![Surl(rs)] = Noted(@, rs)] ELSE prev
  /\ UNCHANGED <<env, kv, db, now, segVars, frVars, m3, lk, cVars>>

\* lines 362-378: the manifest fetch resolves; its text is rewritten and
\* returned with the upstream's status.
StreamManifestReturns(status, playlist) ==
  /\ st.pc = "await_manifest"
  /\ st' = [st EXCEPT !.pc = "done",
                      !.resp = [kind |-> "playlist", status |-> status,
                                body |-> rewriteM3U8(playlist, st.req.url),
                                headers |-> {"Content-Type", "Cache-Control"}]]
  /\ UNCHANGED <<rsVars, segVars, frVars, m3, lk, cVars>>

\* The manifest fetch rejects: nothing in handleStream catches it.
StreamManifestThrows ==
  /\ st.pc = "await_manifest"
  /\ st' = [st EXCEPT !.pc = "done", !.resp = [kind |-> "threw"]]
  /\ UNCHANGED <<rsVars, segVars, frVars, m3, lk, cVars>>

StreamDone ==
  /\ st.pc = "done"
  /\ st' = StIdle
  /\ UNCHANGED <<rsVars, segVars, frVars, m3, lk, cVars>>

\* The stream handler and the resolution it calls.
StreamNext ==
  \/ \E p \in StreamParams, c \in Cookies : StreamStart(p, c)
  \/ \E o \in IoOutcomes : StreamKvCheck(o)
  \/ \E o \in IoOutcomes : ResolveKvCheck(o)
  \/ \E o \in IoOutcomes : ResolveD1Check(o)
  \/ \E o \in IoOutcomes : ResolveTokenGet(o)
  \/ \E o \in PipeOutcomes : ResolveFetchAttempt(o)
  \/ ResolveFetchBackoff
  \/ ResolveApiCachedDone
  \/ \E o \in IoOutcomes : ResolveTokenDelete(o)
  \/ ResolvePageDone
  \/ \E html \in Pages : ResolvePageText(html)
  \/ \E o \in IoOutcomes : ResolveTokenPut(o)
  \/ ResolveApiScrapedDone
  \/ \E b \in StreamApiBodies : ResolveApiBody(b)
  \/ \E k \in StoreFailures : ResolveStore(k)
  \/ \E o \in IoOutcomes : ResolveKvPut(o)
  \/ StreamResolveReturns
  \/ \E s \in ManifestStatuses, p \in ManifestPlaylists : StreamManifestReturns(s, p)
  \/ StreamManifestThrows
  \/ StreamDone

(***************************************************************************)
(* handlers.js: handleLookup.  The handler reads D1 and answers; lk holds  *)
(* its request and its response.                                           *)
(***************************************************************************)
LkIdle == [pc |-> "idle", req |-> NoRequest, resp |-> NoResponse]

\* The lookup requests: by share id, by file id, by both, by neither; ids
\* that resolutions store and ids that are never stored.
LookupSurls == {"s1", "s9"}
LookupFids == {"f1", "f2", "f9"}

LookupParams ==
  { [surl |-> s] : s \in LookupSurls } \cup { [fid |-> f] : f \in LookupFids }
  \cup { [surl |-> "s9", fid |-> "f1"], <<>> }

FileFound(d, fid) == \E i \in 1..Len(d.media_files) : d.media_files[i].fs_id = fid

\* lines 488-511: the file row with its thumbnails.
LookupFile(d, fid) ==
  LET file == d.media_files[CHOOSE i \in 1..Len(d.media_files) :
                              d.media_files[i].fs_id = fid]
  IN  jsonResponse("d1", Falsy(file, "dlink"), "data",
                   ("thumbs" :> ThumbsObject(d, fid)) @@ file)

\* lines 513-525: the share with its files.
LookupShare(d, surl) ==
  LET shareData == getShareFromDb(d, surl)
  IN  jsonResponse("d1", ~hasDlink(shareData), "data", shareData)

\* handleLookup without the test of the binding: the query of an absent
\* binding throws and is answered as a database error.
handleLookup_NoBindingTest(params, outcome) ==
  IF Falsy(params, "surl") /\ Falsy(params, "fid")
    THEN badRequest({"surl", "fid"})
  ELSE IF ~env.d1 \/ outcome = "throw"
    THEN errorJson(500, "db_error", NoOutcome)
  ELSE IF ~Falsy(params, "fid")
    THEN IF FileFound(db, params.fid) THEN LookupFile(db, params.fid)
         ELSE errorJson(404, "not_found", [fid |-> params.fid])
  ELSE IF ShareFound(db, params.surl) THEN LookupShare(db, params.surl)
  ELSE errorJson(404, "not_found", [surl |-> params.surl])

\* handleLookup(request, params, env): the response; `outcome` is that of its
\* D1 queries.
handleLookup(params, outcome) ==
  IF Falsy(params, "surl") /\ Falsy(params, "fid")
    THEN badRequest({"surl", "fid"})
  ELSE IF ~env.d1
    THEN errorJson(503, "d1_unavailable", NoOutcome)
  ELSE IF outcome = "throw"
    THEN errorJson(500, "db_error", NoOutcome)
  ELSE IF ~Falsy(params, "fid")
    THEN IF FileFound(db, params.fid) THEN LookupFile(db, params.fid)
         ELSE errorJson(404, "not_found", [fid |-> params.fid])
  ELSE IF ShareFound(db, params.surl) THEN LookupShare(db, params.surl)
  ELSE errorJson(404, "not_found", [surl |-> params.surl])

\* A lookup request is served between two resolutions.
LookupHandle(params, outcome) ==
  /\ lk.pc = "idle"
  /\ rs.pc = "idle"
  /\ MayBe(rs, outcome)
  /\ lk' = [pc |-> "done", req |-> [kind |-> "lookup", params |-> params],
            resp |-> handleLookup(params, outcome)]
  /\ rs' = [rs EXCEPT !.faults = IF outcome = "throw" THEN @ + 1 ELSE @]
  /\ UNCHANGED <<env, kv, db, now, prev, segVars, frVars, m3, st, cVars>>

LookupDone ==
  /\ lk.pc = "done"
  /\ lk' = LkIdle
  /\ UNCHANGED <<rsVars, segVars, frVars, m3, st, cVars>>

\* Resolutions and lookups, one request after another.
LookupNext ==
  \/ lk.pc = "idle" /\ Next
  \/ \E p \in LookupParams, o \in IoOutcomes : LookupHandle(p, o)
  \/ LookupDone

(***************************************************************************)
(* The worker serving requests of every mode, one after another: resolve,  *)
(* stream (with the resolution it calls), lookup and segment.              *)
(***************************************************************************)
\* The requests and the upstream's answers of this specification.
ServeResolveParams ==
  { [surl |-> "s1"], [surl |-> "s1", raw |-> "1"], [surl |-> "s1", refresh |-> "1"] }
ServeStreamParams == { [surl |-> "s1"], [surl |-> "s1", raw |-> "1"] }
ServeLookupParams == { [surl |-> "s1"], [fid |-> "f1"], [fid |-> "f9"] }
\* A URL on the allow-list, one off it, no URL.
ServeSegParams == { [url |-> U_cdn], [url |-> U_evil], <<>> }
ServeSegStatuses == {200, 404}
ServeOutcomes == { Response(200), Response(403), NetworkError }
ServePages == { PageWith(<<"A">>), <<"<", ">">> }
ServeApiBodies ==
  { NonJson, Json(ShareOf(<<>>)), Json(ShareOf(<<File1, File2>>)),
    Json(ShareOf(<<File1NoLink>>)) }

\* No request of another mode is being served.
OnlyResolve == st.pc = "idle" /\ lk.pc = "idle" /\ seg_pc = "idle"
OnlyStream == lk.pc = "idle" /\ seg_pc = "idle"
OnlyLookup == st.pc = "idle" /\ seg_pc = "idle"
OnlySegment == rs.pc = "idle" /\ st.pc = "idle" /\ lk.pc = "idle"

ServeNext ==
  \/ OnlyResolve /\ \E p \in ServeResolveParams, c \in Cookies : ResolveStart(p, c)
  \/ OnlyStream /\ \E p \in ServeStreamParams, c \in Cookies : StreamStart(p, c)
  \/ OnlyStream /\ \E o \in IoOutcomes : StreamKvCheck(o)
  \/ \E o \in IoOutcomes : ResolveKvCheck(o)
  \/ \E o \in IoOutcomes : ResolveD1Check(o)
  \/ \E o \in IoOutcomes : ResolveTokenGet(o)
  \/ \E o \in ServeOutcomes : ResolveFetchAttempt(o)
  \/ ResolveFetchBackoff
  \/ ResolveApiCachedDone
  \/ \E o \in IoOutcomes : ResolveTokenDelete(o)
  \/ ResolvePageDone
  \/ \E html \in ServePages : ResolvePageText(html)
  \/ \E o \in IoOutcomes : ResolveTokenPut(o)
  \/ ResolveApiScrapedDone
  \/ \E b \in ServeApiBodies : ResolveApiBody(b)
  \/ \E k \in StoreFailures : ResolveStore(k)
  \/ \E o \in IoOutcomes : ResolveKvPut(o)
  \/ st.pc = "idle" /\ ResolveDone
  \/ OnlyResolve /\ \E k \in DOMAIN kv : KvExpire(k)
  \/ StreamResolveReturns
  \/ \E s \in ManifestStatuses : StreamManifestReturns(s, L_seg1)
  \/ StreamManifestThrows
  \/ StreamDone
  \/ OnlyLookup /\ \E p \in ServeLookupParams, o \in IoOutcomes : LookupHandle(p, o)
  \/ LookupDone
  \/ OnlySegment /\ \E p \in ServeSegParams : HandleSegment(p, {"Range"})
  \/ \E s \in ServeSegStatuses : SegmentFetchReturns(s, {"Content-Length"})
  \/ SegmentFetchThrows
  \/ SegmentDone

\* The pipeline alone, on the requests of ServeResolveParams and with every
\* outcome of a fetch.
LiveNext ==
  \/ \E p \in ServeResolveParams, c \in Cookies : ResolveStart(p, c)
  \/ \E o \in IoOutcomes : ResolveKvCheck(o)
  \/ \E o \in IoOutcomes : ResolveD1Check(o)
  \/ \E o \in IoOutcomes : ResolveTokenGet(o)
  \/ \E o \in PipeOutcomes : ResolveFetchAttempt(o)
  \/ ResolveFetchBackoff
  \/ ResolveApiCachedDone
  \/ \E o \in IoOutcomes : ResolveTokenDelete(o)
  \/ ResolvePageDone
  \/ \E html \in ServePages : ResolvePageText(html)
  \/ \E o \in IoOutcomes : ResolveTokenPut(o)
  \/ ResolveApiScrapedDone
  \/ \E b \in ServeApiBodies : ResolveApiBody(b)
  \/ \E k \in StoreFailures : ResolveStore(k)
  \/ \E o \in IoOutcomes : ResolveKvPut(o)
  \/ ResolveDone
  \/ \E k \in DOMAIN kv : KvExpire(k)

(***************************************************************************)
(* db.js: two calls of storeUpstreamData in progress at once, as two       *)
(* resolutions make them.  Each `await` of a statement is a step; the      *)
(* steps of the two calls interleave.                                      *)
(***************************************************************************)
Savers == {1, 2}
MaxSaves == 1

SvIdle == [pc |-> "idle", surl |-> "", upstream |-> NoBody, k |-> 0, calls |-> 0]

\* The share ids and the payloads: file f1 with two sets of thumbnails, f1
\* with f2, and f1 alone without link and thumbnails.
SaverSurls == { "s1", "s2" }
File1b == [File1 EXCEPT !.thumbs = [url1 |-> "f1-small-b", url2 |-> "f1-medium-b"]]
SaverPayloads ==
  { ShareOf(<<File1>>), ShareOf(<<File1b>>), ShareOf(<<File1, File2>>),
    ShareOf(<<File1NoLink>>) }

\* handlers.js 244-248: storeUpstreamData(env.sharedfile, surl, upstream) is
\* called.
SaverCall(p, surl, upstream) ==
  /\ env.d1
  /\ sv[p].pc = "idle"
  /\ sv[p].calls < MaxSaves
  /\ sv' = [sv EXCEPT ![p] = [pc |-> "run", surl |-> surl, upstream |-> upstream,
                              k |-> 0, calls |-> @.calls + 1]]
  /\ UNCHANGED <<segVars, frVars, rsVars, m3, st, lk, tw>>

\* The next statement of the call is awaited; after the last one the call
\* returns.
SaverStep(p) ==
  /\ sv[p].pc = "run"
  /\ LET stmts == StoreStatements(sv[p].upstream)
         k     == sv[p].k + 1
     IN  /\ db' = Execute(db, stmts[k], sv[p].surl, sv[p].upstream, now)
         /\ sv' = [sv EXCEPT ![p].k = k,
                             ![p].pc = IF k = Len(stmts) THEN "done" ELSE "run"]
  /\ UNCHANGED <<env, kv, now, rs, prev, segVars, frVars, m3, st, lk, tw>>

SaversNext ==
  \/ \E p \in Savers, s \in SaverSurls, u \in SaverPayloads : SaverCall(p, s, u)
  \/ \E p \in Savers : SaverStep(p)

(***************************************************************************)
(* handlers.js 134-221: two resolutions at their token steps, interleaving *)
(* at their awaits.  Each reads the Token Store under its key, calls the   *)
(* API with the token it found, deletes the key on a rejection, scrapes a  *)
(* token, caches it and calls the API with it.  tw.owner notes who cached  *)
(* the entry under each key.                                               *)
(***************************************************************************)
Resolvers == {1, 2}
MaxRuns == 2

\* Two Cookie headers: "k=Aa" and "k=B@".
C_one == <<107, 61, 65, 97>>
C_two == <<107, 61, 66, 64>>
\* The requests: a share id and the Cookie header.
TwCallers ==
  { [surl |-> "s1", cookie |-> C_one], [surl |-> "s1", cookie |-> C_two],
    [surl |-> "s1", cookie |-> <<>>], [surl |-> "s2", cookie |-> <<>>] }
\* The tokens the share page carries.
TwTokens == { <<"A">>, <<"B">> }
TwStatuses == { 200, 403 }

TwProcIdle == [pc |-> "idle", surl |-> "", cookie |-> <<>>, jsToken |-> NoToken,
               fromStore |-> FALSE, runs |-> 0]
TwIdle == [proc |-> [p \in Resolvers |-> TwProcIdle], owner |-> <<>>]

TwKey(p) == TokenKey(tw.proc[p].surl, tw.proc[p].cookie)

\* lines 134-138: the request is read and its token key built.
TwStart(p, surl, cookie) ==
  /\ env.kv
  /\ tw.proc[p].pc = "idle"
  /\ tw.proc[p].runs < MaxRuns
  /\ tw' = [tw EXCEPT !.proc[p] = [pc |-> "tok_get", surl |-> surl, cookie |-> cookie,
                                   jsToken |-> NoToken, fromStore |-> FALSE,
                                   runs |-> @.runs + 1]]
  /\ UNCHANGED <<segVars, frVars, rsVars, m3, st, lk, sv>>

\* lines 150-160: jsToken = await env.SHARE_KV.get(tokenKey).
TwTokenGet(p) ==
  /\ tw.proc[p].pc = "tok_get"
  /\ tw' = IF KvHas(kv, TwKey(p))
             THEN [tw EXCEPT !.proc[p].jsToken = kv[TwKey(p)],
                             !.proc[p].fromStore = TRUE,
                             !.proc[p].pc = "api_cached"]
             ELSE [tw EXCEPT !.proc[p].pc = "page"]
  /\ UNCHANGED <<segVars, frVars, rsVars, m3, st, lk, sv>>

\* lines 161-167: the API answers the call made with the cached token.
TwApiCached(p, status) ==
  /\ tw.proc[p].pc = "api_cached"
  /\ tw' = [tw EXCEPT !.proc[p].pc = IF status \in {401, 403} THEN "tok_delete"
                                     ELSE "done"]
  /\ UNCHANGED <<segVars, frVars, rsVars, m3, st, lk, sv>>

\* lines 167-175: await env.SHARE_KV.delete(tokenKey); jsToken = null.
TwTokenDelete(p) ==
  /\ tw.proc[p].pc = "tok_delete"
  /\ kv' = KvDelete(kv, TwKey(p))
  /\ tw' = [tw EXCEPT !.proc[p].jsToken = NoToken, !.proc[p].fromStore = FALSE,
                      !.proc[p].pc = "page",
                      !.owner = [k \in DOMAIN @ \ {TwKey(p)} |-> @[k]]]
  /\ UNCHANGED <<env, db, now, rs, prev, segVars, frVars, m3, st, lk, sv>>

\* lines 178-205: the page is fetched and the token scraped from it.
TwPage(p, token) ==
  /\ tw.proc[p].pc = "page"
  /\ tw' = [tw EXCEPT !.proc[p].jsToken = token, !.proc[p].pc = "tok_put"]
  /\ UNCHANGED <<segVars, frVars, rsVars, m3, st, lk, sv>>

\* lines 207-213: await env.SHARE_KV.put(tokenKey, jsToken, ..).
TwTokenPut(p) ==
  /\ tw.proc[p].pc = "tok_put"
  /\ kv' = KvPut(kv, TwKey(p), tw.proc[p].jsToken)
  /\ tw' = [tw EXCEPT !.proc[p].pc = "api_scraped",
                      !.owner = (TwKey(p) :> [surl |-> tw.proc[p].surl,
                                              cookie |-> tw.proc[p].cookie]) @@ @]
  /\ UNCHANGED <<env, db, now, rs, prev, segVars, frVars, m3, st, lk, sv>>

\* lines 215-228: the API answers the call made with the scraped token; the
\* resolution goes on to its answer.
TwApiScraped(p, status) ==
  /\ tw.proc[p].pc = "api_scraped"
  /\ tw' = [tw EXCEPT !.proc[p].pc = "done"]
  /\ UNCHANGED <<segVars, frVars, rsVars, m3, st, lk, sv>>

\* The response is sent; the next request is taken.
TwDone(p) ==
  /\ tw.proc[p].pc = "done"
  /\ tw' = [tw EXCEPT !.proc[p] = [TwProcIdle EXCEPT !.runs = tw.proc[p].runs]]
  /\ UNCHANGED <<segVars, frVars, rsVars, m3, st, lk, sv>>

TwNext ==
  \/ \E p \in Resolvers, c \in TwCallers : TwStart(p, c.surl, c.cookie)
  \/ \E p \in Resolvers : TwTokenGet(p)
  \/ \E p \in Resolvers, s \in TwStatuses : TwApiCached(p, s)
  \/ \E p \in Resolvers : TwTokenDelete(p)
  \/ \E p \in Resolvers, t \in TwTokens : TwPage(p, t)
  \/ \E p \in Resolvers : TwTokenPut(p)
  \/ \E p \in Resolvers, s \in TwStatuses : TwApiScraped(p, s)
  \/ \E p \in Resolvers : TwDone(p)
(***************************************************************************)
(* The specifications.                                                     *)
(***************************************************************************)
Init ==
  /\ seg_pc = "idle"
  /\ seg_req = NoRequest
  /\ seg_out = <<>>
  /\ seg_resp = NoResponse
  /\ fr_pc = "idle"
  /\ fr_retries = 0
  /\ fr_base = 0
  /\ fr_attempt = 0
  /\ fr_log = <<>>
  /\ fr_delays = <<>>
  /\ fr_lastErr = NoOutcome
  /\ fr_result = NoOutcome
  /\ env \in [kv : BOOLEAN, d1 : BOOLEAN]
  /\ kv = <<>>
  /\ db = EmptyDb
  /\ now = 0
  /\ rs = RsIdle
  /\ prev = [s \in Surls |-> NeverResolved]
  /\ m3 = M3Idle
  /\ st = StIdle
  /\ lk = LkIdle
  /\ sv = [p \in Savers |-> SvIdle]
  /\ tw = TwIdle

\* The resolution pipeline serving one resolve request after another.
Spec == Init /\ [][Next]_vars

\* The segment relay serving one request after another.
SpecSegment == Init /\ [][SegNext]_vars

\* fetchWithRetry called again and again.
SpecRetry == Init /\ [][RetryNext]_vars

\* rewriteM3U8 called on one playlist after another.
SpecM3U8 == Init /\ [][M3Next]_vars

\* The stream handler serving one request after another.
SpecStream == Init /\ [][StreamNext]_vars

\* Resolutions and lookups served one after another.
SpecLookup == Init /\ [][LookupNext]_vars

\* Requests of every mode served one after another.
SpecServe == Init /\ [][ServeNext]_vars

\* Two calls of storeUpstreamData interleaving at their awaits.
SpecSavers == Init /\ [][SaversNext]_vars

\* Two resolutions interleaving at their token steps.
SpecTokens == Init /\ [][TwNext]_vars

\* The pipeline with every awaited operation settling: a step that is
\* possible is taken.
SpecLive == Init /\ [][LiveNext]_vars /\ WF_vars(LiveNext)

(***************************************************************************)
(* The segment relay's claims (SpecSegment).                               *)
(***************************************************************************)
\* The labels of a host name: the pieces between its dots.
RECURSIVE Labels(_)
Labels(host) ==
  LET dot == IndexOf(host, <<".">>, 1)
  IN  IF dot = 0 THEN <<host>>
      ELSE <<SubSeq(host, 1, dot - 1)>> \o Labels(SubSeq(host, dot + 1, Len(host)))

\* The host is an allow-listed domain or a subdomain of one: its labels end
\* with the labels of the domain.
OnAllowList(host) ==
  \E domain \in ALLOWED_SEGMENT_DOMAINS :
    LET h == Labels(host)
        d == Labels(domain)
    IN  /\ Len(h) >= Len(d)
        /\ SubSeq(h, Len(h) - Len(d) + 1, Len(h)) = d

\* The request carries a `url` whose host is on the allow-list.
UrlOnAllowList(urlString) ==
  NewURL(urlString).ok /\ OnAllowList(NewURL(urlString).hostname)

SegHasUrl == seg_req.kind = "segment" /\ Has(seg_req.params, "url")
               /\ seg_req.params.url # <<>>

SegRejected == seg_pc = "done" /\ seg_resp.kind = "error" /\ seg_resp.status = 403
                 /\ seg_resp.code = "invalid_segment_url"

SegAccepted == seg_pc = "await_fetch" \/ (seg_pc = "done" /\ seg_resp.kind \in {"relay", "thrown"})

\* C1: a segment request whose url host is not an allow-listed domain nor a
\* subdomain of one (a url that does not parse included) is answered 403
\* invalid_segment_url and no outbound fetch is issued for it; every fetch the
\* relay issues is for a url that passed the allow-list.
C1_RejectBeforeFetch ==
  /\ (SegHasUrl /\ ~UrlOnAllowList(seg_req.params.url))
        => (seg_out = <<>> /\ SegRejected)
  /\ \A i \in 1..Len(seg_out) : UrlOnAllowList(seg_out[i].url)

C1_Witness ==
  /\ SegHasUrl
  /\ seg_req.params.url = U_evil
  /\ SegRejected
  /\ seg_out = <<>>

\* C2: isAllowedSegmentUrl accepts a url exactly when its host equals an
\* allow-listed domain or ends with "." followed by one: teraboxcdn.com and
\* sub.terabox.com are accepted, evilterabox.com (no dot boundary) is rejected.
C2_AllowListExact ==
  SegHasUrl =>
    /\ SegAccepted <=> UrlOnAllowList(seg_req.params.url)
    /\ SegRejected <=> ~UrlOnAllowList(seg_req.params.url)
    /\ seg_req.params.url \in {U_cdn, U_sub} => SegAccepted
    /\ seg_req.params.url = U_evilterabox => SegRejected

C2_Witness ==
  /\ SegHasUrl
  /\ seg_req.params.url = U_sub
  /\ seg_pc = "await_fetch"
  /\ seg_out # <<>>

(***************************************************************************)
(* The resolution pipeline's claims (Spec).                                *)
(***************************************************************************)
\* A resolution of a given share id is in progress or has just answered.
Resolving ==
  /\ rs.pc # "idle"
  /\ Has(rs.req.params, "surl")
  /\ rs.req.params.surl \in Surls

Refreshing == Resolving /\ Refresh(rs)
NoFlags == Resolving /\ ~Refresh(rs) /\ ~Raw(rs)
RawOnly == Resolving /\ Raw(rs) /\ ~Refresh(rs)

Answered == Resolving /\ rs.pc = "done"
Success(r) == r.pc = "done" /\ r.resp.kind = "json" /\ r.resp.status = 200
AnsweredFrom(source) == Answered /\ Success(rs) /\ rs.resp.body.source = source

\* The operations that go to the upstream.
NetworkOps == {"call_api_cached", "call_page", "call_api_scraped"}
ApiOps == {"call_api_cached", "call_api_scraped"}

\* The rows of the share in the Durable Store.
FilesOf(d, shareId) == SelectSeq(d.media_files, LAMBDA f : f.share_id = shareId)

\* C3: with neither refresh nor raw, when the Fast Cache holds a record for
\* the share id and the read returns it, the resolution answers at once with
\* that record tagged kv: the Token Store and the Durable Store are not read
\* and no fetch is begun.
C3_FastCacheHit ==
  [][ ( /\ rs.pc = "check_kv"
        /\ NoFlags
        /\ env.kv
        /\ KvHas(kv, ShareKey(Surl(rs)))
        /\ "kv_get" \notin rs'.failed )
      => ( /\ Success(rs')
           /\ rs'.resp.body.source = "kv"
           /\ rs'.resp.body.data = kv[ShareKey(Surl(rs))]
           /\ rs'.ops = {"kv_get"}
           /\ fr_pc' = "idle"
           /\ fr_log' = <<>>
           /\ kv' = kv /\ db' = db ) ]_vars

C3_Witness ==
  /\ AnsweredFrom("kv")
  /\ NoFlags
  /\ rs.ops = {"kv_get"}
  /\ rs.resp.body.data = kv[ShareKey(Surl(rs))]

\* C4: with raw and without refresh, when the Durable Store holds the share
\* and the read returns it, the resolution answers at once with the stored
\* share, its files and their thumbnails tagged d1: the Fast Cache is not
\* read and no fetch is begun.
C4_DurableStoreHit ==
  [][ ( /\ rs.pc = "check_d1"
        /\ RawOnly
        /\ env.d1
        /\ ShareFound(db, Surl(rs))
        /\ "d1_get" \notin rs'.failed )
      => ( /\ Success(rs')
           /\ rs'.resp.body.source = "d1"
           /\ rs'.resp.body.data = getShareFromDb(db, Surl(rs))
           /\ rs'.resp.body.data.share_id = Surl(rs)
           /\ Len(rs'.resp.body.data.list) = Len(FilesOf(db, Surl(rs)))
           /\ rs'.ops = {"d1_get"}
           /\ fr_pc' = "idle"
           /\ fr_log' = <<>> ) ]_vars

C4_Witness ==
  /\ AnsweredFrom("d1")
  /\ RawOnly
  /\ rs.ops = {"d1_get"}
  /\ Len(rs.resp.body.data.list) = 2

\* C5: with refresh set, with or without raw, neither the Fast Cache nor the
\* Durable Store is read, and every successful answer is tagged live and
\* carries what the metadata API answered to a call of this resolution.
C5_RefreshIsLive ==
  /\ Refreshing => rs.ops \cap {"kv_get", "d1_get"} = {}
  /\ (Refreshing /\ Success(rs)) =>
       /\ rs.resp.body.source = "live"
       /\ rs.ops \cap ApiOps # {}
       /\ rs.upstream.json
       /\ IF Raw(rs)
            THEN rs.resp.body.upstream = rs.upstream.value
            ELSE rs.resp.body.data.fid = rs.upstream.value.list[1].fs_id

\* A refreshed raw resolution answers live although both tiers hold the share.
C5_Witness ==
  /\ AnsweredFrom("live")
  /\ Refreshing
  /\ Raw(rs)
  /\ env.kv /\ KvHas(kv, ShareKey(Surl(rs)))
  /\ prev[Surl(rs)].last.seen /\ prev[Surl(rs)].last.stored

C8_SameCardinality ==
  ( /\ Answered
    /\ RawOnly
    /\ env.d1
    /\ rs.faults = 0
    /\ prev[Surl(rs)].last.seen
    /\ prev[Surl(rs)].last.raw
    /\ prev[Surl(rs)].last.stored )
    => ( /\ AnsweredFrom("d1")
         /\ Len(rs.resp.body.data.list) = prev[Surl(rs)].last.listLen )


(***************************************************************************)
(* fetchWithRetry's claims (SpecRetry).                                    *)
(***************************************************************************)
\* The transient statuses as the contract lists them.
TransientSet == {408, 429} \cup (500..599)

\* An outcome that ends the retrying: an ok or non-transient response.
Settles(outcome) ==
  outcome.kind = "response" /\ outcome.status \notin TransientSet

FrFinished == fr_pc \in {"returned", "threw"}

Statuses(log) == [i \in 1..Len(log) |->
                    IF log[i].kind = "response" THEN log[i].status ELSE -1]

\* C9: with budget r at most r+1 attempts are made, and the call returns the
\* first response that is ok or non-transient; when none is, it returns the
\* response of attempt r+1 or throws its network error.  [500, 500, 200] gives
\* the 200 after 3 attempts; [500, 500, 500] with budget 2 gives the third 500.
C9_RetryBudget ==
  /\ Len(fr_log) <= fr_retries + 1
  /\ \A i \in 1..(Len(fr_log) - 1) : ~Settles(fr_log[i])
  /\ FrFinished =>
       /\ fr_log # <<>>
       /\ fr_result = fr_log[Len(fr_log)]
       /\ Settles(fr_result) \/ Len(fr_log) = fr_retries + 1
       /\ fr_pc = "returned" <=> fr_result.kind = "response"
  /\ (fr_pc # "idle" /\ Len(fr_log) >= 1 /\ Settles(fr_log[Len(fr_log)]))
       => fr_pc = "returned"
  /\ (fr_pc # "idle" /\ Len(fr_log) = fr_retries + 1) => FrFinished
  /\ Statuses(fr_log) = <<500, 500, 200>>
       => (fr_pc = "returned" /\ fr_result = Response(200))
  /\ (Statuses(fr_log) = <<500, 500, 500>> /\ fr_retries = 2)
       => (fr_pc = "returned" /\ fr_result = Response(500))

C9_Witness ==
  /\ fr_pc = "returned"
  /\ fr_retries = 2
  /\ Statuses(fr_log) = <<500, 500, 200>>
  /\ fr_result = Response(200)

\* C10: a response with a status outside {408, 429, 500..599} is never
\* retried: it is returned after that attempt with no backoff following it (a
\* first such response: one attempt, no delay at all); and after the last
\* attempt the call returns or throws with no further delay.
C10_NoRetryNoDelay ==
  /\ (fr_pc # "idle" /\ Len(fr_log) >= 1 /\ Settles(fr_log[1]))
       => (fr_pc = "returned" /\ Len(fr_log) = 1 /\ fr_delays = <<>>)
  /\ fr_pc = "backoff" =>
       (~Settles(fr_log[Len(fr_log)]) /\ Len(fr_log) <= fr_retries)
  /\ Len(fr_delays) <= fr_retries
  /\ FrFinished => Len(fr_delays) = Len(fr_log) - 1
  /\ \A i \in 1..Len(fr_delays) : fr_delays[i] = baseDelayMs * 2^(i - 1)

C10_Witness ==
  /\ fr_pc = "returned"
  /\ Len(fr_log) = 1
  /\ fr_log[1] = Response(404)
  /\ fr_delays = <<>>

(***************************************************************************)
(* The pipeline's failures (Spec).                                         *)
(***************************************************************************)
\* The resolution in progress carries no surl, or an empty one.
SurlMissing ==
  /\ rs.pc # "idle"
  /\ ~Has(rs.req.params, "surl") \/ rs.req.params.surl = ""

Failed(status, code) ==
  rs.pc = "done" /\ rs.resp.kind = "error" /\ rs.resp.status = status
    /\ rs.resp.code = code

\* C11: a resolution without surl is answered 400 with a `required` list that
\* names surl, no cache read, store access or fetch having been begun.
C11_MissingSurlRequired ==
  SurlMissing =>
    /\ Failed(400, "bad_request")
    /\ "surl" \in rs.resp.required
    /\ rs.ops = {}
    /\ fr_pc = "idle"

\* The Token Store key of the resolution in progress.
MyTokenKey == TokenKey(Surl(rs), rs.req.cookie)

AuthRejected(outcome) == outcome.kind = "response" /\ outcome.status \in {401, 403}

\* C12: when the metadata API answers 401 or 403 to the call made with the
\* cached token, the token's deletion is awaited next (a deletion that
\* succeeds leaves no token under the key), and the resolution then stands
\* where one without a cached token stands: no token, no API response, the
\* page fetch begun; the API is called again only after the page was fetched,
\* a token scraped and its caching awaited.
C12_RejectedTokenRescraped ==
  /\ [][ (rs.pc = "await_api_cached" /\ fr_pc = "returned" /\ AuthRejected(fr_result))
         => (rs'.pc = "tok_delete" /\ rs'.resp = NoResponse /\ kv' = kv) ]_vars
  /\ [][ rs.pc = "tok_delete"
         => ( /\ "tok_delete" \in rs'.ops
              /\ "tok_delete" \notin rs'.failed => ~KvHas(kv', MyTokenKey)
              /\ rs'.pc = "await_page"
              /\ rs'.jsToken = NoToken
              /\ rs'.apiRes = NoOutcome
              /\ rs'.ops \cap NetworkOps = {"call_api_cached", "call_page"}
              /\ fr_pc' = "fetch" /\ fr_attempt' = 0 /\ fr_log' = <<>> ) ]_vars
  /\ []( (Resolving /\ {"tok_delete", "call_api_scraped"} \subseteq rs.ops)
         => ( /\ {"call_page", "scrape", "tok_put"} \subseteq rs.ops
              /\ rs.jsToken # NoToken
              /\ Succeeded(rs, "tok_put") => kv[MyTokenKey] = rs.jsToken ) )

C12_Witness ==
  /\ AnsweredFrom("live")
  /\ {"call_api_cached", "tok_delete", "call_page", "scrape", "tok_put",
      "call_api_scraped"} \subseteq rs.ops
  /\ rs.failed = {}
  /\ kv[MyTokenKey] = rs.jsToken

\* C13: when the API rejected the cached token, the token was invalidated and
\* a token scraped anew, and the API rejects (401 or 403) the call made with
\* the new token as well, the resolution fails with status 403.
C13_SecondRejectionIs403 ==
  ( /\ Answered
    /\ {"call_api_cached", "tok_delete", "call_api_scraped"} \subseteq rs.ops
    /\ AuthRejected(rs.apiRes) )
    => (rs.resp.kind = "error" /\ rs.resp.status = 403)


\* C14: when no token is scraped from the page that was fetched, the
\* resolution ends there with 403 token_extract_failed: no fetch is begun,
\* of the page or of the API, and the stores are left as they were.
C14_NoTokenFails ==
  /\ [][ (rs.pc = "page_text" /\ rs'.jsToken = NoToken)
         => ( /\ rs'.pc = "done"
              /\ rs'.resp.kind = "error"
              /\ rs'.resp.status = 403
              /\ rs'.resp.code = "token_extract_failed"
              /\ rs'.ops = rs.ops \cup {"scrape"}
              /\ fr_pc' = "idle" /\ fr_log' = <<>>
              /\ kv' = kv /\ db' = db ) ]_vars
  /\ []( (Resolving /\ Failed(403, "token_extract_failed"))
         => ( /\ rs.jsToken = NoToken
              /\ rs.ops \cap {"tok_put", "call_api_scraped", "d1_store", "kv_put"} = {}
              /\ fr_pc = "idle" ) )
  /\ []( (Resolving /\ "scrape" \in rs.ops /\ rs.jsToken = NoToken)
         => Failed(403, "token_extract_failed") )

C14_Witness ==
  /\ Resolving
  /\ Failed(403, "token_extract_failed")
  /\ rs.ops = {"tok_get", "call_page", "scrape"}
  /\ kv = <<>> /\ db = EmptyDb

\* C15: an ok answer of the metadata API whose body is not JSON, or lists no
\* file, ends the resolution with 502 upstream_non_json or upstream_empty: the
\* API is not called again and nothing is stored.  Only a body with a file in
\* its list goes on.
C15_DataErrorsSurfaced ==
  /\ [][ (rs.pc = "after_api" /\ IsOk(rs.apiRes.status) /\ ~rs'.upstream.json)
         => ( /\ rs'.pc = "done"
              /\ rs'.resp.kind = "error"
              /\ rs'.resp.status = 502
              /\ rs'.resp.code \in {"upstream_non_json", "upstream_empty"}
              /\ rs'.ops = rs.ops
              /\ fr_pc' = "idle" /\ fr_log' = <<>>
              /\ kv' = kv /\ db' = db ) ]_vars
  /\ []( (Resolving /\ rs.upstream.json)
         => ( /\ IsOk(rs.apiRes.status)
              /\ Has(rs.upstream.value, "list")
              /\ Len(rs.upstream.value.list) > 0 ) )
  /\ []( (Resolving /\ rs.resp.kind = "error"
            /\ rs.resp.code \in {"upstream_non_json", "upstream_empty"})
         => ( /\ rs.pc = "done"
              /\ rs.resp.status = 502
              /\ IsOk(rs.apiRes.status)
              /\ rs.ops \cap {"d1_store", "kv_put"} = {} ) )

C15_Witness ==
  /\ Resolving
  /\ Failed(502, "upstream_empty")
  /\ rs.apiRes = Response(200)
  /\ rs.ops \cap ApiOps = {"call_api_scraped"}

\* The live answer as the request, the payload of the API and the time
\* determine it.
LiveAnswer(r) ==
  IF Raw(r)
    THEN jsonResponse("live", ~hasDlink(r.upstream.value), "upstream", r.upstream.value)
    ELSE LET record == CanonicalRecord(Surl(r), r.upstream.value, now)
         IN  jsonResponse("live", Falsy(record, "dlink"), "data", record)

\* C16: a resolution that has the payload of the API answers live whatever
\* becomes of the Durable Store write and of the Fast Cache write, and the
\* answer is the one the request, the payload and the time determine: the
\* same with both writes done, one failed or both failed.
C16_WritesBestEffort ==
  /\ [][ rs.pc \in {"d1_store", "kv_put"}
         => ( \/ rs'.pc = "kv_put" /\ rs.pc = "d1_store"
              \/ Success(rs') /\ rs'.resp = LiveAnswer(rs) ) ]_vars
  /\ [](AnsweredFrom("live") => rs.resp = LiveAnswer(rs))

\* Both writes failed and the answer is the live record.
C16_Witness ==
  /\ AnsweredFrom("live")
  /\ {"d1_store", "kv_put"} \subseteq rs.failed
  /\ rs.resp.body.data.fid = rs.upstream.value.list[1].fs_id

\* What the caller and the upstream can see of a resolution: where it is,
\* what it has fetched and begun, what it answers.  The counters are left out.
Visible(r) ==
  [pc |-> r.pc, jsToken |-> r.jsToken, apiRes |-> r.apiRes, upstream |-> r.upstream,
   record |-> r.record, ops |-> r.ops, resp |-> r.resp]

FellThrough(r, pc, ops) == [Visible(r) EXCEPT !.pc = pc, !.ops = @ \cup ops]

ReadFailed(op) == op \in rs'.failed
ReadMissed(op, held) == op \notin rs'.failed /\ ~held

SurfacedCodes ==
  {"token_extract_failed", "upstream_error", "upstream_non_json", "upstream_empty"}

\* C17: a rejected read of the Fast Cache (no flags), of the Durable Store (raw
\* without refresh) or of the Token Store leaves the resolution where a miss
\* of that tier leaves it: at the next tier, nothing answered, nothing
\* written; after the Token Store, fetching the page without a token.  No
\* resolution answers an error other than those of the upstream.
C17_ReadFailureIsMiss ==
  /\ [][ ( /\ rs.pc = "check_kv" /\ NoFlags
           /\ \/ ReadFailed("kv_get")
              \/ ReadMissed("kv_get", KvHas(kv, ShareKey(Surl(rs)))) )
         => ( /\ Visible(rs') = FellThrough(rs, "check_d1", {"kv_get"})
              /\ fr_pc' = "idle" /\ kv' = kv /\ db' = db ) ]_vars
  /\ [][ ( /\ rs.pc = "check_d1" /\ RawOnly /\ env.d1
           /\ \/ ReadFailed("d1_get")
              \/ ReadMissed("d1_get", ShareFound(db, Surl(rs))) )
         => ( /\ Visible(rs') = FellThrough(rs, "live", {"d1_get"})
              /\ fr_pc' = "idle" /\ kv' = kv /\ db' = db ) ]_vars
  /\ [][ ( /\ rs.pc = "live" /\ Resolving /\ env.kv
           /\ \/ ReadFailed("tok_get")
              \/ ReadMissed("tok_get", KvHas(kv, TokenKey(Surl(rs), rs.req.cookie))) )
         => ( /\ Visible(rs') = FellThrough(rs, "await_page", {"tok_get", "call_page"})
              /\ rs'.jsToken = NoToken
              /\ fr_pc' = "fetch" /\ kv' = kv /\ db' = db ) ]_vars
  /\ []( (Resolving /\ rs.resp.kind = "error") => rs.resp.code \in SurfacedCodes )

\* The Fast Cache holds the record of the share, its read was rejected, and
\* the resolution answered live as on a miss.
C17_Witness ==
  /\ AnsweredFrom("live")
  /\ NoFlags
  /\ "kv_get" \in rs.failed
  /\ env.kv
  /\ prev[Surl(rs)].canon.seen /\ prev[Surl(rs)].canon.cached
  /\ ~prev[Surl(rs)].canon.expired

(***************************************************************************)
(* The Durable Store's rows (Spec)                                         *)
(***************************************************************************)
\* The file has its row, under the share.
FileStored(d, shareId, file) ==
  \E i \in 1..Len(d.media_files) :
    d.media_files[i].fs_id = file.fs_id /\ d.media_files[i].share_id = shareId

StoredOf(d, shareId, list) ==
  { i \in 1..Len(list) : FileStored(d, shareId, list[i]) }

\* C18: a store that wrote the share's row and then met one storage failure
\* on a file still stores every other file of the payload: at most one file
\* of the list is without its row afterwards.
C18_FilesIndependent ==
  [][ ( /\ rs.pc = "d1_store"
        /\ ~ShareFound(db, Surl(rs))
        /\ ShareFound(db', Surl(rs))
        /\ "d1_store" \in rs'.failed )
      => Cardinality(StoredOf(db', Surl(rs), rs.upstream.value.list))
           >= Len(rs.upstream.value.list) - 1 ]_vars

\* The thumbnail rows of a file, in row order.
ThumbRows(d, fsId) == SelectSeq(d.thumbnails, LAMBDA t : t.fs_id = fsId)

\* The thumbnail set a file carries; none when it has no thumbs object.
ThumbsOf(file) == IF Has(file, "thumbs") THEN file.thumbs ELSE <<>>

AlreadyStored(d, file) ==
  \E i \in 1..Len(d.media_files) : d.media_files[i].fs_id = file.fs_id

\* C19: after a store that ran to its end, every file of the payload that had
\* its row before has exactly the thumbnail rows of the set it carries now,
\* none when it carries no set or an empty one.
C19_ThumbnailsReplaced ==
  [][ ( /\ rs.pc = "d1_store"
        /\ rs'.pc # "d1_store"
        /\ "d1_store" \notin rs'.failed )
      => \A i \in 1..Len(rs.upstream.value.list) :
           LET file == rs.upstream.value.list[i]
           IN  AlreadyStored(db, file)
                 => ThumbRows(db', file.fs_id) = ThumbnailBatch(file.fs_id, ThumbsOf(file)) ]_vars

\* No two rows of the table carry the same value of the key.
UniqueKey(rows, key) ==
  \A i, j \in 1..Len(rows) : rows[i][key] = rows[j][key] => i = j

\* C20: the Durable Store never holds two share rows of one share_id nor two
\* file rows of one fs_id, and a store of a share or file that has its row
\* adds no row for it: it updates the row in place.
C20_RowsUnique ==
  /\ [](UniqueKey(db.shares, "share_id") /\ UniqueKey(db.media_files, "fs_id"))
  /\ [][ (rs.pc = "d1_store" /\ ShareFound(db, Surl(rs)))
         => ( /\ Len(db'.shares) = Len(db.shares)
              /\ Len(db'.media_files) - Len(db.media_files)
                   <= Cardinality({ i \in 1..Len(rs.upstream.value.list) :
                                      ~AlreadyStored(db, rs.upstream.value.list[i]) })
              /\ "d1_store" \notin rs'.failed
                   => \E i \in 1..Len(db'.shares) :
                        /\ db'.shares[i].share_id = Surl(rs)
                        /\ db'.shares[i].updated_at = now ) ]_vars

\* The share was stored again: its one row carries the later time, file f1
\* its later link, and the table still has the two file rows.
C20_Witness ==
  /\ Len(db.shares) = 1
  /\ db.shares[1].updated_at = 2
  /\ Len(db.media_files) = 2
  /\ db.media_files[1].fs_id = "f1"
  /\ db.media_files[1].dlink = Null
  /\ prev["s1"].last.seen /\ prev["s1"].last.stored

(***************************************************************************)
(* The playlist rewriter's claims (SpecM3U8)                               *)
(***************************************************************************)
M3Returned == m3.pc = "returned"
InLines == Split(m3.content, <<"\n">>)
OutLines == Split(m3.out, <<"\n">>)

IsComment(line) == StartsWith(line, <<"#">>)
IsBlank(line) == \A i \in 1..Len(line) : line[i] \in WhiteSpace
\* An absolute URL is a string new URL() parses without a base.
IsAbsoluteUrl(line) == NewURL(line).ok

\* C21: the output of rewriteM3U8 has as many lines as its input, and each
\* input line that is a comment, blank or not an absolute URL is the output
\* line of the same position.
C21_Lossless ==
  M3Returned =>
    /\ Len(OutLines) = Len(InLines)
    /\ \A i \in 1..Len(InLines) :
         (IsComment(InLines[i]) \/ IsBlank(InLines[i]) \/ ~IsAbsoluteUrl(InLines[i]))
           => OutLines[i] = InLines[i]

\* url.searchParams.get(name): the decoded value of the first pair of the
\* query whose decoded name is `name`; Null when there is none.
SearchOf(url) ==
  LET q == FirstOf(url, {"?"})
      h == FirstOf(url, {"#"})
  IN  IF q >= h THEN <<>> ELSE SubSeq(url, q + 1, h - 1)

PairName(pair) == FormDecode(SubSeq(pair, 1, FirstOf(pair, {"="}) - 1))
PairValue(pair) == FormDecode(SubSeq(pair, FirstOf(pair, {"="}) + 1, Len(pair)))

SearchParam(url, name) ==
  LET pairs == SelectSeq(Split(SearchOf(url), <<"&">>), LAMBDA p : PairName(p) = name)
  IN  IF pairs = <<>> THEN <<>> ELSE PairValue(pairs[1])

PointsAtRelay(out, line) ==
  /\ WithoutSearch(out) = WithoutSearch(m3.url)
  /\ SearchParam(out, <<"m", "o", "d", "e">>) = <<"s", "e", "g", "m", "e", "n", "t">>
  /\ SearchParam(out, <<"u", "r", "l">>) = line

\* C22: each line that is neither a comment nor blank and is an absolute URL
\* is replaced by the request's URL without its query, with mode=segment and
\* a url parameter that decodes to the line.
C22_AbsoluteUrlsRelayed ==
  M3Returned =>
    \A i \in 1..Len(InLines) :
      (~IsComment(InLines[i]) /\ ~IsBlank(InLines[i]) /\ IsAbsoluteUrl(InLines[i]))
        => PointsAtRelay(OutLines[i], InLines[i])

(***************************************************************************)
(* The stream handler's claims (SpecStream)                                *)
(***************************************************************************)
Streaming == st.pc # "idle" /\ ~Falsy(st.req.params, "surl")
HasRecord == Streaming /\ st.record # NoRecord
StreamFields == {"uk", "shareid", "fid", "dlink"}
Lacks(record) == \E k \in StreamFields : Falsy(record, k)
StreamFailed(status, code) ==
  st.pc = "done" /\ st.resp.kind = "error" /\ st.resp.status = status
    /\ st.resp.code = code

DlinkQuery(dlink) ==
  CASE dlink = "dlink1" -> [sign |-> "S1", timestamp |-> "T1", expires |-> "8h"]
    [] dlink = "dlink2" -> [sign |-> "S2", timestamp |-> "T2"]
    [] OTHER -> <<>>

FixedParams == [clienttype |-> "0", app_id |-> "250528", web |-> "1", channel |-> "dubox"]

Carries(url, params) ==
  \A k \in DOMAIN params : Has(url.params, k) /\ url.params[k] = params[k]

\* C24: the URL of every manifest fetch carries the fixed parameters and each
\* query parameter of the record's download link with its value.
C24_DlinkParamsCopied ==
  (Streaming /\ st.out # <<>>)
    => ( /\ Carries(st.out[1].url, FixedParams)
         /\ Carries(st.out[1].url, DlinkQuery(st.record.dlink)) )

\* The stream handler's read of the Fast Cache gave no record: it missed or
\* failed.
NoRecordRead == st'.metrics # <<"kv_read", "cache_hit">>

\* C25: when the stream handler's read of the Fast Cache misses or fails, the
\* resolution is called with the caller's parameters less raw, so it runs in
\* canonical mode and never reads the Durable Store; no manifest fetch is
\* issued while it runs, and when it answers an error that answer is the
\* stream handler's, with no manifest fetch.
C25_CanonicalAutoResolve ==
  /\ [][ (st.pc = "check_kv" /\ NoRecordRead)
         => ( /\ st'.pc = "await_resolve"
              /\ rs'.pc = "check_kv"
              /\ rs'.ops = {}
              /\ ~Has(rs'.req.params, "raw")
              /\ \A k \in DOMAIN st.req.params \ {"raw"} :
                   Has(rs'.req.params, k) /\ rs'.req.params[k] = st.req.params[k] ) ]_vars
  /\ [](st.pc = "await_resolve"
          => (~Raw(rs) /\ "d1_get" \notin rs.ops /\ st.out = <<>>))
  /\ [][ (st.pc = "await_resolve" /\ rs.pc = "done" /\ rs.resp.kind = "error")
         => (st'.pc = "done" /\ st'.resp = rs.resp /\ st'.out = <<>>) ]_vars

\* The caller passed raw, the resolution failed on a body that is not JSON,
\* and that failure is the answer.
C25_Witness ==
  /\ StreamFailed(502, "upstream_non_json")
  /\ Has(st.req.params, "raw")
  /\ st.metrics = <<"kv_read", "cache_miss">>
  /\ st.out = <<>>

(***************************************************************************)
(* The segment relay's passing through (SpecSegment)                       *)
(***************************************************************************)
\* C26: an accepted segment request issues one outbound fetch and no other,
\* whatever the upstream answers; the answer of that fetch ends the request,
\* and the response has the upstream's status and, of Content-Range,
\* Accept-Ranges, Content-Length, ETag and Last-Modified, exactly those the
\* upstream sent.
C26_OneFetchPassedThrough ==
  /\ [](Len(seg_out) <= 1)
  /\ [](SegAccepted => Len(seg_out) = 1)
  /\ [][ seg_pc = "await_fetch" => (seg_pc' = "done" /\ Len(seg_out') = 1) ]_vars
  /\ []( (seg_pc = "done" /\ seg_resp.kind = "relay")
         => ( /\ seg_resp.status = seg_out[1].res.status
              /\ seg_resp.headers \cap passthroughHeaders
                   = seg_out[1].res.headers \cap passthroughHeaders ) )

\* The upstream answered 503 with all five headers: it was fetched once and
\* the answer is relayed.
C26_Witness ==
  /\ seg_pc = "done"
  /\ seg_resp.kind = "relay"
  /\ seg_resp.status = 503
  /\ passthroughHeaders \subseteq seg_resp.headers
  /\ Len(seg_out) = 1

(***************************************************************************)
(* The resolution's answers and counters (Spec)                            *)
(***************************************************************************)
\* C27: every successful answer of a resolution is {source, data} with an
\* optional note: source is kv, d1 or live and the payload is under data, in
\* canonical and in raw mode.
C27_Envelope ==
  (Answered /\ Success(rs))
    => ( /\ rs.resp.body.source \in {"kv", "d1", "live"}
         /\ Has(rs.resp.body, "data")
         /\ DOMAIN rs.resp.body \subseteq {"source", "data", "note"} )

Canonical == Resolving /\ ~Raw(rs)
Noted28(body) == Has(body, "note")

\* C28: a canonical record without a download link is answered as a success
\* with the note and is written to the Fast Cache like any other; in every
\* canonical success, live or from the Fast Cache, the note is there exactly
\* when the record has no download link; no resolution fails for the lack
\* of a download link.
C28_NoLinkIsNoted ==
  /\ []( (Canonical /\ Answered /\ Success(rs))
         => ( /\ rs.resp.body.source \in {"kv", "live"}
              /\ Noted28(rs.resp.body) <=> Falsy(rs.resp.body.data, "dlink") ) )
  /\ [][ (rs.pc = "kv_put" /\ Falsy(rs.record, "dlink"))
         => ( /\ Success(rs')
              /\ rs'.resp.body.source = "live"
              /\ rs'.resp.body.data = rs.record
              /\ Noted28(rs'.resp.body)
              /\ "kv_put" \notin rs'.failed
                   => (KvHas(kv', ShareKey(Surl(rs))) /\ kv'[ShareKey(Surl(rs))] = rs.record) ) ]_vars
  /\ []( (Canonical /\ rs.upstream.json /\ Falsy(rs.upstream.value.list[1], "dlink"))
         => rs.resp.kind # "error" )

\* The record without a download link is answered from the Fast Cache, with
\* the note.
C28_Witness ==
  /\ AnsweredFrom("kv")
  /\ Falsy(rs.resp.body.data, "dlink")
  /\ Noted28(rs.resp.body)
  /\ prev[Surl(rs)].canon.seen /\ prev[Surl(rs)].canon.cached

\* The events the counters of failures are incremented by.
FailureEvents == {"kv_read_failed", "kv_write_failed", "upstream_error"}
FailuresCounted(r) ==
  Cardinality({ i \in 1..Len(r.metrics) : r.metrics[i] \in FailureEvents })

\* C30: a resolution has counted as many failures as it has met: one per
\* storage operation that failed and was swallowed, one for the failure it
\* answers.
C30_FailuresCounted ==
  Resolving =>
    FailuresCounted(rs) >= Cardinality(rs.failed)
                             + (IF rs.resp.kind = "error" THEN 1 ELSE 0)

\* A lookup has been answered.
LookedUp == lk.pc = "done"
LookupFailed(status, code) ==
  lk.resp.kind = "error" /\ lk.resp.status = status /\ lk.resp.code = code
ByFid == ~Falsy(lk.req.params, "fid")
BySurl == Falsy(lk.req.params, "fid") /\ ~Falsy(lk.req.params, "surl")

TokenCached(store, r, token) ==
  LET key == TokenKey(Surl(r), r.req.cookie)
  IN  KvHas(store, key) /\ store[key] = token

\* C31: a token the metadata API rejected with 401 or 403 is not in the Token
\* Store when the resolution returns: the token read from the Token Store is
\* gone once its deletion has been awaited, and a resolution that answers
\* after the API rejected the token it scraped leaves the Token Store without
\* that token.
C31_RejectedTokenGone ==
  /\ [][ rs.pc = "tok_delete" => ~TokenCached(kv', rs, kv[MyTokenKey]) ]_vars
  /\ []( (Answered /\ rs.jsToken # NoToken /\ AuthRejected(rs.apiRes))
         => ~TokenCached(kv, rs, rs.jsToken) )

\* Every attempt of the retried call failed transiently: the budget is used
\* up and no outcome was a response with a status that is not transient.
Exhausted ==
  /\ rs.pc \in {"await_api_cached", "await_page", "await_api_scraped"}
  /\ FrFinished
  /\ Len(fr_log) = retries + 1
  /\ \A i \in 1..Len(fr_log) : ~Settles(fr_log[i])

FailedWith(r, status, code, details) ==
  /\ r.pc = "done"
  /\ r.resp = errorJson(status, code, details)

\* C32: when every attempt of a retried call (of the page, or of the API with
\* either token) has failed transiently, the resolution answers 502
\* upstream_error with the last outcome observed: the status of the last
\* response or the error of the last attempt.  For the API the answer follows
\* the test of the response, with nothing done in between.
C32_ExhaustedIs502 ==
  /\ [][ Exhausted
         => \/ FailedWith(rs', 502, "upstream_error", fr_log[Len(fr_log)])
            \/ /\ rs.pc # "await_page"
               /\ fr_pc = "returned"
               /\ rs'.pc = "after_api"
               /\ rs'.apiRes = fr_log[Len(fr_log)]
               /\ rs'.ops = rs.ops /\ kv' = kv /\ db' = db ]_vars
  /\ [][ (rs.pc = "after_api" /\ ~IsOk(rs.apiRes.status))
         => ( /\ FailedWith(rs', 502, "upstream_error", rs.apiRes)
              /\ rs'.ops = rs.ops /\ kv' = kv /\ db' = db ) ]_vars

\* The third attempt of a call threw: the resolution has answered 502 with
\* the network error.
C32_Witness ==
  /\ Answered
  /\ FailedWith(rs, 502, "upstream_error", NetworkError)
  /\ "call_api_scraped" \in rs.ops

\* The step changes a row of the Durable Store; the step creates or changes
\* the Fast Cache record of a share.
RowsChanged == db' # db
RecordChanged ==
  \E s \in Surls \cup LookupSurls :
    /\ KvHas(kv', ShareKey(s))
    /\ ~KvHas(kv, ShareKey(s)) \/ kv'[ShareKey(s)] # kv[ShareKey(s)]

\* The resolution in progress obtained an ok, JSON response of the API with
\* a file in its list.
Obtained(r) ==
  /\ r.pc # "idle"
  /\ r.apiRes.kind = "response" /\ IsOk(r.apiRes.status)
  /\ r.upstream.json
  /\ Has(r.upstream.value, "list") /\ Len(r.upstream.value.list) > 0

\* C33: share, file and thumbnail rows and the Fast Cache record are created
\* or changed only by a step of a resolution that obtained an ok, JSON
\* response listing a file.  A resolution that
\* fails or is answered from the Fast Cache or the Durable Store has begun no
\* store write; a lookup, a segment request and a stream request served from
\* a cached record leave the rows and the records as they were.
C33_WritesOnlyAfterUpstream ==
  /\ [][ (RowsChanged \/ RecordChanged)
         => ( /\ Obtained(rs)
              /\ rs.pc \in {"d1_store", "kv_put"} ) ]_vars
  /\ []( (Answered /\ (rs.resp.kind = "error" \/ ~IsLive(rs)))
         => rs.ops \cap {"d1_store", "kv_put"} = {} )
  /\ [][ (lk' # lk \/ segVars' # segVars \/ (st' # st /\ rs.pc = "idle"))
         => (db' = db /\ kv' = kv) ]_vars

\* A stream request is served from the record that a resolution cached, over
\* a Durable Store that holds the rows of the share.
C33_Witness ==
  /\ st.pc = "await_manifest"
  /\ "cache_hit" \in { st.metrics[i] : i \in 1..Len(st.metrics) }
  /\ KvHas(kv, ShareKey("s1")) /\ st.record = kv[ShareKey("s1")]
  /\ ShareFound(db, "s1")

\* The Fast Cache record of the share is the same in both stores.
SameRecord(a, b, s) ==
  /\ KvHas(a, ShareKey(s)) <=> KvHas(b, ShareKey(s))
  /\ KvHas(a, ShareKey(s)) => a[ShareKey(s)] = b[ShareKey(s)]

\* C34: no step of a resolution in raw mode (with or without refresh)
\* touches the Fast Cache record of the share; a raw resolution answered live
\* has begun the store of the payload in the Durable Store when D1 is bound,
\* and a store that ran to its end has left the share's row and a row for
\* every file of the payload; it has begun no write of the record.  Every
\* step that creates or changes the record is the write of a resolution that
\* is not raw.
C34_RawSkipsFastCache ==
  /\ [][ (Resolving /\ Raw(rs)) => SameRecord(kv', kv, Surl(rs)) ]_vars
  /\ []( (Answered /\ Raw(rs) /\ IsLive(rs))
         => ( /\ "kv_put" \notin rs.ops
              /\ env.d1 <=> "d1_store" \in rs.ops
              /\ Succeeded(rs, "d1_store")
                   => ( /\ ShareFound(db, Surl(rs))
                        /\ StoredOf(db, Surl(rs), rs.upstream.value.list)
                             = 1..Len(rs.upstream.value.list) ) ) )
  /\ [][ RecordChanged => (Resolving /\ ~Raw(rs) /\ rs.pc = "kv_put") ]_vars

\* A raw resolution with refresh is answered live over a Fast Cache record
\* that an earlier canonical resolution wrote; the payload is in the Durable
\* Store.
C34_Witness ==
  /\ Answered /\ Raw(rs) /\ Refresh(rs) /\ IsLive(rs)
  /\ Succeeded(rs, "d1_store")
  /\ KvHas(kv, ShareKey(Surl(rs)))
  /\ Len(getShareFromDb(db, Surl(rs)).list) = 2

\* The step is an attempt of a fetch; the step enters a retried call.
Attempts == Len(fr_log') = Len(fr_log) + 1
EntersCall == fr_pc = "idle" /\ fr_pc' = "fetch"
InProgress == rs.pc \notin {"idle", "done"}

\* C35: a resolution ends with a response, after at most 9 upstream fetches.
\* Every fetch is an attempt of the retried call in progress, a call makes at
\* most retries + 1 = 3 attempts, and a resolution enters each of its three
\* calls (the API with the cached token, the page, the API with the scraped
\* token) at most once: entering a call adds it to the calls made, which
\* only grow while the resolution runs.  The page is scraped at most once.
C35_TerminatesWithinNine ==
  /\ InProgress ~> (rs.pc = "done")
  /\ []( rs.pc = "done" => rs.resp.kind \in {"json", "error"} )
  /\ []( Len(fr_log) <= retries + 1 /\ retries + 1 = 3 )
  /\ []( fr_pc # "idle" => InProgress )
  /\ [][ Attempts
         => ( /\ rs.pc \in {"await_api_cached", "await_page", "await_api_scraped"}
              /\ rs' = rs ) ]_vars
  /\ [][ EntersCall
         => ( /\ fr_log' = <<>>
              /\ Cardinality(rs'.ops \cap NetworkOps)
                   = Cardinality(rs.ops \cap NetworkOps) + 1 ) ]_vars
  /\ [][ InProgress => rs.ops \subseteq rs'.ops ]_vars
  /\ []( Cardinality(rs.ops \cap NetworkOps) <= 3 )
  /\ [][ (InProgress /\ "scrape" \in rs.ops) => rs'.pc # "page_text" ]_vars

\* A resolution has answered after entering all three calls, the page
\* scraped once.
C35_Witness ==
  /\ Answered
  /\ NetworkOps \cup {"scrape"} \subseteq rs.ops

(***************************************************************************)
(* Requests that interleave.                                               *)
(***************************************************************************)
BothSaved == \A p \in Savers : sv[p].pc = "done"

\* Both calls store file f1, with thumbnails, and nothing else.
SameFile ==
  \A p \in Savers :
    /\ Len(sv[p].upstream.list) = 1
    /\ sv[p].upstream.list[1].fs_id = "f1"
    /\ Has(sv[p].upstream.list[1], "thumbs")

\* The rows saveThumbnails inserts for the file of the payload.
SavedBatch(upstream) ==
  ThumbnailBatch(upstream.list[1].fs_id, upstream.list[1].thumbs)

\* C36: when two stores of the same file have both completed, however their
\* statements interleaved, the thumbnails table holds at most one row per
\* type for the file, and its rows for the file are the thumbnails of one of
\* the two payloads.
C36_ConcurrentThumbnails ==
  (BothSaved /\ SameFile) =>
    LET rows == ThumbRows(db, "f1")
    IN  /\ \A i, j \in 1..Len(rows) :
             rows[i].thumbnail_type = rows[j].thumbnail_type => i = j
        /\ \E p \in Savers : rows = SavedBatch(sv[p].upstream)

\* The step is resolver p's deletion of its token key.
Deletes(p) == tw.proc[p].pc = "tok_delete" /\ tw'.proc[p].pc = "page"

\* C37: the deletion that follows a rejected token removes that token only:
\* when the key holds another token by then, one that the other resolution
\* has cached since the rejected token was read, the deletion leaves it in
\* the Token Store.
C37_DeletesOnlyRejected ==
  [][ \A p \in Resolvers :
        (Deletes(p) /\ KvHas(kv, TwKey(p)) /\ kv[TwKey(p)] # tw.proc[p].jsToken)
          => (KvHas(kv', TwKey(p)) /\ kv'[TwKey(p)] = kv[TwKey(p)]) ]_vars

\* C40: a resolution calls the API only with a token of its own share id and
\* caller: the token it read from the Token Store was cached by a request
\* with the same share id and the same Cookie header (or, like it, without
\* one), and the keys of two requests that differ in either are different.
C40_TokensPerCaller ==
  /\ \A p \in Resolvers :
       (tw.proc[p].pc = "api_cached")
         => ( /\ tw.owner[TwKey(p)].surl = tw.proc[p].surl
              /\ tw.owner[TwKey(p)].cookie = tw.proc[p].cookie )
  /\ \A p, q \in Resolvers :
       (tw.proc[p].pc # "idle" /\ tw.proc[q].pc # "idle"
          /\ <<tw.proc[p].surl, tw.proc[p].cookie>> # <<tw.proc[q].surl, tw.proc[q].cookie>>)
         => TwKey(p) # TwKey(q)
  /\ DOMAIN kv = DOMAIN tw.owner

\* The file ids of the rows stored under the share; those getShareFromDb
\* returns for it.
RowsUnder(d, shareId) ==
  { d.media_files[i].fs_id : i \in { j \in 1..Len(d.media_files) :
                                       d.media_files[j].share_id = shareId } }
Returned(d, shareId) ==
  LET list == getShareFromDb(d, shareId).list
  IN  { list[i].fs_id : i \in 1..Len(list) }

\* The step is the save of file fsId under a share other than shareId.
StoredElsewhere(fsId, shareId) ==
  \E p \in Savers :
    /\ sv[p].pc = "run" /\ sv'[p].k = sv[p].k + 1
    /\ sv[p].surl # shareId
    /\ LET stmt == StoreStatements(sv[p].upstream)[sv'[p].k]
       IN  stmt.op = "saveMediaFile" /\ stmt.file.fs_id = fsId

\* C38: no store operation deletes a file row.  A file stored under a share
\* stays under it at every step, unless the step stores that file under
\* another share id; a share with file rows has its own row, and
\* getShareFromDb returns exactly the files stored under it, whether or not
\* the latest payload of the share lists them.
C38_FilesNeverDeleted ==
  /\ [][ \A s \in SaverSurls : \A f \in RowsUnder(db, s) :
           f \in RowsUnder(db', s) \/ StoredElsewhere(f, s) ]_vars
  /\ [][ Len(db'.media_files) >= Len(db.media_files) ]_vars
  /\ []( \A s \in SaverSurls :
           /\ RowsUnder(db, s) # {} => ShareFound(db, s)
           /\ ShareFound(db, s) => Returned(db, s) = RowsUnder(db, s) )

\* Share s1 was stored with f1 and f2 and then with f1 alone: f2, absent
\* from the latest payload, is returned still.
C38_Witness ==
  /\ BothSaved
  /\ sv[1].surl = "s1" /\ sv[1].upstream = ShareOf(<<File1, File2>>)
  /\ sv[2].surl = "s1" /\ sv[2].upstream = ShareOf(<<File1NoLink>>)
  /\ getShareFromDb(db, "s1").list[1].dlink = Null
  /\ Returned(db, "s1") = {"f1", "f2"}

(***************************************************************************)
(* The stream handler after a failed write (SpecStream).                   *)
(***************************************************************************)
\* The resolution the stream handler called has answered live, its write of
\* the record having failed.
WriteFailed ==
  /\ st.pc = "await_resolve"
  /\ rs.pc = "done"
  /\ "kv_put" \in rs.failed

\* C39: when the Fast Cache write of the resolution that the stream handler
\* called has failed, the handler goes on with the record of the resolution's
\* answer, without a second read of the Fast Cache: a record with its four
\* fields leads to the manifest fetch, and the only failure that can follow
\* at this step is that of a record lacking a field.
C39_StreamSurvivesWriteFailure ==
  [][ WriteFailed
      => ( /\ rs.resp.kind = "json" /\ rs.resp.status = 200
           /\ st'.record = rs.resp.body.data
           /\ st'.record = rs.record
           /\ st'.metrics = st.metrics
           /\ kv' = kv
           /\ ~Lacks(rs.record)
                => ( /\ st'.pc = "await_manifest"
                     /\ Len(st'.out) = 1
                     /\ st'.out[1].url = StreamUrl(rs.record, st'.streamUrl.params.type) )
           /\ Lacks(rs.record)
                => ( /\ st'.pc = "done"
                     /\ st'.resp = errorJson(500, "incomplete_metadata", NoOutcome) ) ) ]_vars

\* The playlist is answered while the Fast Cache, bound, holds no record of
\* the share: the write failed.
C39_Witness ==
  /\ st.pc = "done"
  /\ st.resp.kind = "playlist" /\ st.resp.status = 200
  /\ st.metrics = <<"kv_read", "cache_miss">>
  /\ env.kv
  /\ ~KvHas(kv, ShareKey(st.req.params.surl))

====
